---- MODULE Spec2Model ----
(***************************************************************************)
(* Model of the vibez-monitor incremental multi-source sync engine:        *)
(* backend/vibez/{beeper_sync,google_groups_sync,matrix_sync,db}.py and    *)
(* backend/scripts/run_sync.py.                                            *)
(*                                                                         *)
(* The sqlite database is the pair (messages, sync_state).  Each source    *)
(* supervisor is a record holding its program counter and its locals.      *)
(***************************************************************************)
EXTENDS Integers, Sequences, FiniteSets, TLC

VARIABLES
    messages,     \* table messages: a set of rows
    sync_state,   \* table sync_state: key -> None or Some(value)
    beeperApi,    \* Beeper Desktop API: chat id -> messages, oldest first
    imap,         \* IMAP mailbox: mails in sequence-number order
    hs,           \* Matrix homeserver: the event log
    bp,           \* Beeper supervisor (beeper_sync.sync_loop under the wrapper)
    gg,           \* Google Groups supervisor
    mx,           \* Matrix supervisor
    call,         \* the last direct call of a save function and its result
    hist          \* history: what was fetched, the retry sleeps, first cycles

vars == <<messages, sync_state, beeperApi, imap, hs, bp, gg, mx, call, hist>>

dbVars  == <<messages, sync_state>>
envVars == <<beeperApi, imap, hs>>

----------------------------------------------------------------------------
(* Bounds *)

MaxBatch == 2     \* longest batch handed directly to a save function
MaxMsgs  == 2     \* messages a chat service holds in a run
MaxMails == 3     \* UIDs the mailbox assigns in a run
MaxExpunged == 1  \* mails removed from the mailbox in a run

----------------------------------------------------------------------------
(* Optional values: Python None / a present value *)

None    == <<>>
Some(v) == <<v>>
Val(o)  == o[1]

Max(a, b) == IF a >= b THEN a ELSE b
Min(a, b) == IF a <= b THEN a ELSE b

Range(s) == {s[i] : i \in 1..Len(s)}

RECURSIVE SeqsUpTo(_, _)
SeqsUpTo(S, n) ==
    IF n = 0 THEN {<<>>}
    ELSE LET shorter == SeqsUpTo(S, n - 1)
         IN  shorter \cup {Append(s, x) : s \in {t \in shorter : Len(t) = n - 1}, x \in S}

----------------------------------------------------------------------------
(* db.py: the messages table and INSERT OR IGNORE *)

Ids(table) == {r.id : r \in table}

\* Mutant of Row: the primary key is the body text, so that rows of different
\* sources can carry the same key.
RowKeyedByBody(id, room_id, room_name, body) ==
    [id |-> <<body>>, room_id |-> room_id, room_name |-> room_name, body |-> body]

\* A row as the save functions bind it (db.py SCHEMA, columns of messages).
Row(id, room_id, room_name, body) ==
    [id |-> id, room_id |-> room_id, room_name |-> room_name, body |-> body]

\* Mutant of InsertOrIgnore: a plain INSERT into a table without the primary
\* key, which adds the row whatever the table holds.
InsertAlways(table, msg) == [table |-> table \cup {msg}, rowcount |-> 1]

\* Mutant of InsertOrIgnore: INSERT OR REPLACE, which puts the new row in the
\* place of a stored row with the same id.
InsertOrReplace(table, msg) ==
    [table |-> {r \in table : r.id # msg.id} \cup {msg}, rowcount |-> 1]

\* Mutant of InsertOrIgnore: the insert reports one row also when the row was
\* ignored.
InsertCounted(table, msg) ==
    IF msg.id \in Ids(table)
    THEN [table |-> table, rowcount |-> 1]
    ELSE [table |-> table \cup {msg}, rowcount |-> 1]

\* INSERT OR IGNORE INTO messages: id is the PRIMARY KEY, so a row whose id
\* is present is ignored (rowcount 0), otherwise it is added (rowcount 1).
InsertOrIgnore(table, msg) ==
    IF msg.id \in Ids(table)
    THEN [table |-> table, rowcount |-> 0]
    ELSE [table |-> table \cup {msg}, rowcount |-> 1]

\* beeper_sync.save_messages / matrix_sync.save_messages: the loop over the
\* batch from position i, each INSERT in its own try/except.  fails is the set
\* of positions whose INSERT raises; such a message is logged and skipped.
RECURSIVE SaveLoop(_, _, _, _, _)
SaveLoop(table, batch, fails, i, count) ==
    IF i > Len(batch) THEN [table |-> table, count |-> count, raised |-> FALSE]
    ELSE IF i \in fails THEN SaveLoop(table, batch, fails, i + 1, count)
    ELSE LET r == InsertOrIgnore(table, batch[i])
         IN  SaveLoop(r.table, batch, fails, i + 1, count + r.rowcount)

save_messages(table, batch, fails) ==
    IF batch = <<>> THEN [table |-> table, count |-> 0, raised |-> FALSE]
    ELSE SaveLoop(table, batch, fails, 1, 0)

\* google_groups_sync._save_messages: the same loop without try/except.  An
\* INSERT that raises leaves the function before conn.commit(), so nothing of
\* the call is committed and the exception reaches the caller.
_save_messages(table, batch, fails) ==
    IF batch = <<>> THEN [table |-> table, count |-> 0, raised |-> FALSE]
    ELSE IF fails \cap (1..Len(batch)) # {}
         THEN [table |-> table, count |-> 0, raised |-> TRUE]
         ELSE SaveLoop(table, batch, {}, 1, 0)

----------------------------------------------------------------------------
(* sync_state: the cursor store *)

BeeperCursorKey(chat_id) == <<"beeper_cursor", chat_id>>
UidCursorKey(mailbox)    == <<"google_groups_uid_cursor", mailbox>>
NextBatchKey             == <<"next_batch", "">>

\* SELECT value FROM sync_state WHERE key = ?
LoadState(state, key) == state[key]

\* Mutant of SaveState: INSERT OR IGNORE, which keeps the value a key has.
SaveStateOrIgnore(state, key, value) ==
    IF state[key] # None THEN state ELSE [state EXCEPT ![key] = Some(value)]

\* INSERT OR REPLACE INTO sync_state (key, value)
SaveState(state, key, value) == [state EXCEPT ![key] = Some(value)]

----------------------------------------------------------------------------
(* Program constants *)

POLL_INTERVAL    == 30    \* beeper_sync.POLL_INTERVAL
GG_POLL_INTERVAL == 60    \* google_groups_sync.sync_loop poll_interval default
BACKOFF_CEILING  == 300   \* min(backoff * 2, 300)
RESTART_COOLDOWN == 10    \* run_source_with_restart: asyncio.sleep(10)

\* backoff = min(backoff * 2, 300)
NextBackoff(backoff) == Min(backoff * 2, BACKOFF_CEILING)

\* hist.retry[s] is the latest retry sleep of the current run of consecutive
\* failed cycles of source s, and 0 after a successful cycle and in a loop
\* that was started afresh.
NoteRetry(h, s, d) == [h EXCEPT !.retry[s] = d]
NoteSuccess(h, s)  == [h EXCEPT !.retry[s] = 0]

----------------------------------------------------------------------------
(* Beeper Desktop API as beeper_sync.py uses it *)

PageSize == 1     \* items per page of GET /v1/chats/{id}/messages

MsgName == <<"m1", "m2", "m3", "m4", "m5", "m6">>

\* GET /v1/chats: what discovery is answered with.
Chats == <<
    [id |-> <<"c1">>, title |-> "The vibez", network |-> "WhatsApp", type |-> "group"],
    [id |-> <<"c2">>, title |-> "BBC News",  network |-> "WhatsApp", type |-> "group"],
    [id |-> <<"c3">>, title |-> "Off-topic", network |-> "WhatsApp", type |-> "group"],
    [id |-> <<"d1">>, title |-> "Direct",    network |-> "WhatsApp", type |-> "dm"] >>

ChatIds == {Chats[i].id : i \in 1..Len(Chats)}

DEFAULT_EXCLUDED_GROUPS == {"BBC News", "Bloomberg News", "MTB Rides", "Plum"}

\* Mutant of get_whatsapp_groups: the comprehension without the condition on
\* the title.
get_whatsapp_groups_any_title(items, excluded_groups) ==
    SelectSeq(items, LAMBDA c : c.network = "WhatsApp" /\ c.type = "group")

\* get_whatsapp_groups: the list comprehension over data["items"].
get_whatsapp_groups(items, excluded_groups) ==
    SelectSeq(items, LAMBDA c : /\ c.network = "WhatsApp"
                                /\ c.type = "group"
                                /\ c.title \notin excluded_groups)

\* The kinds of message a chat can hold: a text message, a reaction (no
\* text), and a text message whose timestamp field is missing.
BeeperKinds == {
    [type |-> "TEXT",     text |-> "hi", hasTs |-> TRUE],
    [type |-> "REACTION", text |-> "",   hasTs |-> TRUE],
    [type |-> "TEXT",     text |-> "hi", hasTs |-> FALSE] }

\* The k-th message of chat c; its sortKey is its position in the chat.
BeeperMsg(c, k, kind) ==
    [id |-> <<MsgName[k]>>, chatID |-> c, sortKey |-> k,
     type |-> kind.type, text |-> kind.text, hasTs |-> kind.hasTs]

Reverse(s) == [i \in 1..Len(s) |-> s[Len(s) + 1 - i]]

\* api_get(.../messages, params): one page, newest first.  Without a cursor
\* the latest page; with cursor and direction=after the page that follows the
\* cursor, hasMore telling whether newer messages remain.
ApiPage(msgs, cursor) ==
    IF cursor = None
    THEN LET n == Len(msgs)
         IN  [items   |-> Reverse(SubSeq(msgs, Max(1, n - PageSize + 1), n)),
              hasMore |-> n > PageSize]
    ELSE LET newer == SelectSeq(msgs, LAMBDA m : m.sortKey > Val(cursor))
         IN  [items   |-> Reverse(SubSeq(newer, 1, Min(PageSize, Len(newer)))),
              hasMore |-> Len(newer) > PageSize]

\* fetch_new_messages, the while loop: continue paginating from the newest
\* sortKey of the page just read.
RECURSIVE FetchMore(_, _, _, _)
FetchMore(msgs, data, all_items, nreq) ==
    IF data.hasMore /\ data.items # <<>>
    THEN LET next == ApiPage(msgs, Some(data.items[1].sortKey))
         IN  FetchMore(msgs, next, all_items \o next.items, nreq + 1)
    ELSE [items |-> all_items, nreq |-> nreq]

\* Mutant of fetch_new_messages: an answer without items comes with the
\* cursor of the start of the chat instead of after_cursor.
fetch_new_messages_from_start(msgs, after_cursor) ==
    LET first == ApiPage(msgs, after_cursor)
        all   == FetchMore(msgs, first, first.items, 1)
    IN  [items  |-> all.items,
         cursor |-> IF all.items # <<>> THEN Some(all.items[1].sortKey) ELSE Some(0),
         nreq   |-> all.nreq]

\* fetch_new_messages(chat, after_cursor) -> (all_items, newest_cursor)
fetch_new_messages(msgs, after_cursor) ==
    LET first == ApiPage(msgs, after_cursor)
        all   == FetchMore(msgs, first, first.items, 1)
    IN  [items  |-> all.items,
         cursor |-> IF all.items # <<>> THEN Some(all.items[1].sortKey) ELSE after_cursor,
         nreq   |-> all.nreq]

\* f"beeper-{msg['chatID']}-{msg['id']}"
BeeperId(chatID, id) == <<"beeper", "-">> \o chatID \o <<"-">> \o id

\* Mutant of parse_beeper_message: the id is built from the title of the
\* group instead of the chatID.
parse_beeper_message_by_title(msg, room_name) ==
    IF msg.type \notin {"TEXT", "IMAGE", "VIDEO", "AUDIO", "FILE"}
    THEN [raised |-> FALSE, row |-> None]
    ELSE IF msg.text = ""
    THEN [raised |-> FALSE, row |-> None]
    ELSE IF ~msg.hasTs
    THEN [raised |-> TRUE, row |-> None]
    ELSE [raised |-> FALSE,
          row |-> Some(Row(BeeperId(<<room_name>>, msg.id), msg.chatID, room_name, msg.text))]

\* parse_beeper_message: None for a non-text type or blank text, KeyError for
\* a missing timestamp, otherwise the row.
parse_beeper_message(msg, room_name) ==
    IF msg.type \notin {"TEXT", "IMAGE", "VIDEO", "AUDIO", "FILE"}
    THEN [raised |-> FALSE, row |-> None]
    ELSE IF msg.text = ""
    THEN [raised |-> FALSE, row |-> None]
    ELSE IF ~msg.hasTs
    THEN [raised |-> TRUE, row |-> None]
    ELSE [raised |-> FALSE,
          row |-> Some(Row(BeeperId(msg.chatID, msg.id), msg.chatID, room_name, msg.text))]

\* poll_once line 251: the comprehension over raw_msgs; an exception of one
\* parse ends it.
RECURSIVE ParseAll(_, _, _, _)
ParseAll(raw_msgs, title, i, acc) ==
    IF i > Len(raw_msgs) THEN [raised |-> FALSE, parsed |-> acc]
    ELSE LET p == parse_beeper_message(raw_msgs[i], title)
         IN  IF p.raised THEN [raised |-> TRUE, parsed |-> <<>>]
             ELSE ParseAll(raw_msgs, title, i + 1,
                           IF p.row = None THEN acc ELSE Append(acc, Val(p.row)))

----------------------------------------------------------------------------
(* run_sync.run_source_with_restart, shared by the supervised sources *)

\* sync_loop has ended with an exception: its frame and locals are gone.
\* What urlopen(req, timeout=3) of publish_event does: it answers, or raises
\* a URLError (connection refused, HTTP error status), or raises some other
\* exception.
Transports == {"ok", "URLError", "Exception"}

\* Mutant of publish_event: the handler is except URLError alone.
publish_event_url_errors_only(transport) ==
    [raised |-> transport \notin {"ok", "URLError"}]

\* paia_events_adapter.publish_event: the envelope and the request are made
\* and sent inside try, and except (URLError, OSError, Exception) logs at
\* debug level: whatever urlopen raises, the function returns.
publish_event(transport) ==
    [raised |-> transport \notin {"ok", "URLError", "OSError", "Exception"}]

Raised(idle) == [idle EXCEPT !.pc = "raised"]

\* Mutant of Caught: the wrapper logs the exception and returns.
CaughtAndStopped(idle) == [idle EXCEPT !.pc = "stopped"]

\* except Exception: log, await asyncio.sleep(10).
Caught(idle) == [idle EXCEPT !.pc = "cooldown", !.sleep = RESTART_COOLDOWN]

----------------------------------------------------------------------------
(* Beeper supervisor: beeper_sync.sync_loop and poll_once *)

BeeperIdle ==
    [pc |-> "start", groups |-> <<>>, gi |-> 0, backoff |-> 1,
     cursor |-> None, raw_msgs |-> <<>>, new_cursor |-> None,
     all_new |-> <<>>, sleep |-> 0, polled |-> <<>>, tried |-> {},
     notified |-> "none"]

Monitored == {<<"c1">>, <<"c3">>}   \* the chats that receive messages in a run

TotalBeeper == Len(beeperApi[<<"c1">>]) + Len(beeperApi[<<"c3">>])

\* A message is sent in a chat.
BeeperArrive ==
    /\ bp.pc # "off"
    /\ TotalBeeper < MaxMsgs
    /\ \E c \in Monitored, kind \in BeeperKinds :
         beeperApi' = [beeperApi EXCEPT
                         ![c] = Append(@, BeeperMsg(c, Len(@) + 1, kind))]
    /\ UNCHANGED <<dbVars, imap, hs, bp, gg, mx, call, hist>>

\* sync_loop lines 281-290: init_db, discovery, save_active_groups.  A
\* discovery request that raises ends sync_loop.
BeeperDiscover ==
    /\ bp.pc = "start"
    /\ \E outcome \in {"ok", "raise"} :
         IF outcome = "raise"
         THEN /\ bp' = Raised(BeeperIdle)
              /\ UNCHANGED sync_state
         ELSE LET groups == get_whatsapp_groups(Chats, DEFAULT_EXCLUDED_GROUPS)
              IN  /\ bp' = [BeeperIdle EXCEPT !.pc = "seed", !.groups = groups, !.gi = 1]
                  /\ sync_state' = SaveState(sync_state, <<"beeper_active_group_ids", "">>,
                                             [i \in 1..Len(groups) |-> groups[i].id])
    /\ UNCHANGED <<messages, envVars, gg, mx, call, hist>>

\* The position after group gi of the seeding loop (lines 293-305).
AfterSeed(b) ==
    IF b.gi < Len(b.groups)
    THEN [b EXCEPT !.gi = @ + 1]
    ELSE [b EXCEPT !.pc = "fetch", !.gi = 1]

\* sync_loop lines 293-305, one group: a group without cursor gets the
\* sortKey of the newest item of the latest page, when the request succeeds
\* and the page is not empty.
BeeperSeed ==
    /\ bp.pc = "seed"
    /\ LET group == bp.groups[bp.gi]
           key   == BeeperCursorKey(group.id)
       IN  IF LoadState(sync_state, key) # None
           THEN UNCHANGED sync_state
           ELSE \E outcome \in {"ok", "raise"} :
                  LET items == ApiPage(beeperApi[group.id], None).items
                  IN  IF outcome = "ok" /\ items # <<>>
                      THEN sync_state' = SaveState(sync_state, key, items[1].sortKey)
                      ELSE UNCHANGED sync_state
    /\ bp' = AfterSeed(bp)
    /\ UNCHANGED <<messages, envVars, gg, mx, call, hist>>

\* bp.polled records, for each group the current poll_once call is done
\* with, how its fetch ended, the cursor the fetch returned and the ids of
\* the rows whose INSERT was executed.
Polled(status, cursor, ids) == [status |-> status, cursor |-> cursor, ids |-> ids]

\* poll_once: the loop moves to the next group, or returns all_new to
\* sync_loop after the last one.
NextGroup(b) ==
    IF b.gi < Len(b.groups)
    THEN [b EXCEPT !.pc = "fetch", !.gi = @ + 1, !.cursor = None,
                   !.raw_msgs = <<>>, !.new_cursor = None]
    ELSE [b EXCEPT !.pc = "dispatch", !.gi = 0, !.cursor = None,
                   !.raw_msgs = <<>>, !.new_cursor = None]

\* Mutant of OnFetchError: the exception of one group ends the loop over
\* the groups (break instead of continue).
OnFetchErrorBreak(b) ==
    [b EXCEPT !.pc = "dispatch", !.gi = 0, !.cursor = None, !.raw_msgs = <<>>,
              !.new_cursor = None, !.polled = Append(@, Polled("raised", None, {}))]

\* poll_once lines 247-249: except Exception: log and continue.
OnFetchError(b) == NextGroup([b EXCEPT !.polled = Append(@, Polled("raised", None, {}))])

\* An exception that reaches sync_loop's generic handlers (lines 321-327):
\* sleep backoff now, double it once the sleep is over.
BeeperFail(b) ==
    [b EXCEPT !.pc = "backoff", !.sleep = b.backoff, !.gi = 0, !.cursor = None,
              !.raw_msgs = <<>>, !.new_cursor = None, !.all_new = <<>>,
              !.polled = <<>>, !.tried = {}, !.notified = "none"]

\* History: the items a fetch returned that parse to a row, each with its
\* source, scope and position in the source's own ordering.  fresh: the item
\* was asked for as one that follows a stored cursor, and does follow it.
Fetched(src, scope, pos, id, fresh) ==
    [src |-> src, scope |-> scope, pos |-> pos, id |-> id, fresh |-> fresh]

\* The history keeps the first fetch of each item.
NoteFetched(fetched, new) ==
    fetched \cup {f \in new : ~\E g \in fetched : g.src = f.src /\ g.id = f.id}

BeeperFetched(raw_msgs, title, cursor) ==
    {Fetched("beeper", raw_msgs[i].chatID, raw_msgs[i].sortKey,
             BeeperId(raw_msgs[i].chatID, raw_msgs[i].id),
             cursor # None /\ raw_msgs[i].sortKey > Val(cursor)) :
        i \in {j \in 1..Len(raw_msgs) :
                 parse_beeper_message(raw_msgs[j], title).row # None}}

\* poll_once lines 241-249, one group: load the cursor and fetch.  The fetch
\* answers, or raises (a transport error, or HTTP 401).
BeeperFetch ==
    /\ bp.pc = "fetch"
    /\ bp.gi >= 1 /\ bp.gi <= Len(bp.groups)
    /\ LET group  == bp.groups[bp.gi]
           cursor == LoadState(sync_state, BeeperCursorKey(group.id))
       IN  \E outcome \in {"ok", "error", "401"} :
             IF outcome = "ok"
             THEN LET r == fetch_new_messages(beeperApi[group.id], cursor)
                  IN  /\ bp' = [bp EXCEPT !.pc = "save", !.cursor = cursor,
                                          !.raw_msgs = r.items, !.new_cursor = r.cursor]
                      /\ hist' = [hist EXCEPT
                                    !.fetched = NoteFetched(@, BeeperFetched(r.items, group.title, cursor)),
                                    !.cyc = IF bp.gi = 1 THEN Min(@ + 1, 2) ELSE @]
             ELSE /\ bp' = OnFetchError(bp)
                  /\ hist' = [hist EXCEPT
                                !.b401 = @ \/ outcome = "401",
                                !.cyc = IF bp.gi = 1 THEN Min(@ + 1, 2) ELSE @]
    /\ UNCHANGED <<dbVars, envVars, gg, mx, call>>

\* all_new.extend(parsed[:saved])
Prefix(s, n) == SubSeq(s, 1, Min(n, Len(s)))

\* poll_once lines 251-263, one group: parse, save_messages, publish_event.
\* A parse that raises leaves poll_once.  fails: the positions of the batch
\* whose INSERT raises.  transport: what urlopen does in publish_event;
\* bp.notified is "failed" until the cursor is stored when it was not "ok".
BeeperSave ==
    /\ bp.pc = "save"
    /\ LET group == bp.groups[bp.gi]
           p     == ParseAll(bp.raw_msgs, group.title, 1, <<>>)
       IN  IF p.raised
           THEN /\ bp' = BeeperFail(bp)
                /\ hist' = NoteRetry(hist, "beeper", bp.backoff)
                /\ UNCHANGED messages
           ELSE \E fails \in {{}, {1}}, transport \in Transports :
                  LET r == save_messages(messages, p.parsed, fails)
                  IN  /\ messages' = r.table
                      /\ r.count = 0 => transport = "ok"
                      /\ IF r.count > 0 /\ publish_event(transport).raised
                         THEN /\ bp' = BeeperFail(bp)
                              /\ hist' = NoteRetry(hist, "beeper", bp.backoff)
                         ELSE /\ bp' = [bp EXCEPT
                                          !.pc = "advance", !.raw_msgs = <<>>,
                                          !.all_new = @ \o Prefix(p.parsed, r.count),
                                          !.tried = {p.parsed[k].id :
                                                       k \in (1..Len(p.parsed)) \ fails},
                                          !.notified = IF r.count > 0 /\ transport # "ok"
                                                       THEN "failed" ELSE "none"]
                              /\ UNCHANGED hist
    /\ UNCHANGED <<sync_state, envVars, gg, mx, call>>

\* poll_once lines 265-266: if new_cursor and new_cursor != cursor: save_cursor.
BeeperAdvance ==
    /\ bp.pc = "advance"
    /\ LET group == bp.groups[bp.gi]
       IN  IF bp.new_cursor # None /\ bp.new_cursor # bp.cursor
           THEN sync_state' = SaveState(sync_state, BeeperCursorKey(group.id),
                                        Val(bp.new_cursor))
           ELSE UNCHANGED sync_state
    /\ bp' = NextGroup([bp EXCEPT !.polled = Append(@, Polled("ok", bp.new_cursor, bp.tried)),
                                  !.tried = {}, !.notified = "none"])
    /\ UNCHANGED <<messages, envVars, gg, mx, call, hist>>

\* sync_loop lines 309-314 after poll_once returned: with new messages
\* on_messages is called and awaited; without, the backoff is reset and the
\* loop sleeps poll_interval.
BeeperDispatch ==
    /\ bp.pc = "dispatch"
    /\ IF bp.all_new # <<>>
       THEN /\ bp' = [bp EXCEPT !.pc = "callback"]
            /\ UNCHANGED hist
       ELSE /\ bp' = [bp EXCEPT !.pc = "sleep", !.backoff = 1, !.sleep = POLL_INTERVAL]
            /\ hist' = NoteSuccess(hist, "beeper")
    /\ UNCHANGED <<dbVars, envVars, gg, mx, call>>

\* sync_loop lines 311-327: the awaited on_messages call ends.  It returns,
\* and the loop resets the backoff and sleeps poll_interval; or it raises: an
\* HTTPError with code 401 is re-raised, anything else is answered with the
\* backoff sleep.
BeeperCallback ==
    /\ bp.pc = "callback"
    /\ \E outcome \in {"ok", "raise", "http401"} :
         /\ CASE outcome = "ok" ->
                   /\ bp' = [bp EXCEPT !.pc = "sleep", !.backoff = 1, !.all_new = <<>>,
                                       !.sleep = POLL_INTERVAL]
                   /\ hist' = NoteSuccess(hist, "beeper")
              [] outcome = "raise" ->
                   /\ bp' = BeeperFail(bp)
                   /\ hist' = NoteRetry(hist, "beeper", bp.backoff)
              [] outcome = "http401" ->
                   /\ bp' = Raised(BeeperIdle)
                   /\ UNCHANGED hist
    /\ UNCHANGED <<dbVars, envVars, gg, mx, call>>

\* asyncio.sleep(poll_interval) is over: the next iteration calls poll_once.
BeeperWake ==
    /\ bp.pc = "sleep"
    /\ bp' = [bp EXCEPT !.pc = "fetch", !.gi = 1, !.sleep = 0, !.polled = <<>>]
    /\ UNCHANGED <<dbVars, envVars, gg, mx, call, hist>>

\* asyncio.sleep(backoff) is over: backoff = min(backoff * 2, 300), next
\* iteration.
BeeperRetry ==
    /\ bp.pc = "backoff"
    /\ bp' = [bp EXCEPT !.pc = "fetch", !.gi = 1, !.sleep = 0,
                        !.backoff = NextBackoff(bp.backoff)]
    /\ UNCHANGED <<dbVars, envVars, gg, mx, call, hist>>

\* run_source_with_restart lines 103-105: the exception of the Beeper
\* source is caught and the cool-down begins.
BeeperCaught ==
    /\ bp.pc = "raised"
    /\ bp' = Caught(BeeperIdle)
    /\ UNCHANGED <<dbVars, envVars, gg, mx, call, hist>>

\* run_source_with_restart lines 100-102: the cool-down is over, the factory
\* is called again.
BeeperRestart ==
    /\ bp.pc = "cooldown"
    /\ bp' = BeeperIdle
    /\ hist' = [NoteSuccess(hist, "beeper") EXCEPT !.b401 = FALSE]
    /\ UNCHANGED <<dbVars, envVars, gg, mx, call>>

----------------------------------------------------------------------------
(* Google Groups supervisor: google_groups_sync.sync_loop and poll_once *)

GGIdle ==
    [pc |-> "start", backoff |-> 1, new_messages |-> <<>>, sleep |-> 0]

MAILBOX    == "INBOX"
GROUP_KEYS == {"vibez"}     \* the configured group_keys (allowed_groups)

UidName == <<"1", "2", "3", "4", "5", "6", "7">>

\* The kinds of mail the mailbox receives: of the configured list, or of a
\* list that is not configured.
MailKinds == {
    [group_key |-> "vibez", body |-> "hi"],
    [group_key |-> "other", body |-> "hi"] }

Mail(uid, kind) ==
    [uid |-> uid, group_key |-> kind.group_key, body |-> kind.body,
     message_id |-> MsgName[uid], date |-> "Thu"]

MaxOf(uids) == CHOOSE u \in Range(uids) : \A v \in Range(uids) : v <= u

\* hashlib.sha1(stable_source).hexdigest()[:24], kept symbolic
Digest(stable_source) == <<"sha1">> \o stable_source

\* parse_group_email lines 157-165: the timestamp is the Date header, or
\* datetime.now() when the header is missing or does not parse.  The header
\* "Thu" stands for time 1.
MailTimestamp(mail, now) == IF mail.date = "" THEN now ELSE 1

\* parse_group_email lines 168-170 and 188
GroupMailId(mail, uid) ==
    LET stable_source ==
            IF mail.message_id # "" THEN <<mail.message_id>>
            ELSE <<mail.group_key, ":", UidName[uid], ":", mail.date, ":", "sender">>
    IN  <<"googlegroup", "-", mail.group_key, "-">> \o Digest(stable_source)

\* parse_group_email: None without group key, for a group that is not
\* allowed (when allowed_groups is not empty), or without body.
parse_group_email(mail, uid, allowed_groups) ==
    IF mail.group_key = "" THEN None
    ELSE IF allowed_groups # {} /\ mail.group_key \notin allowed_groups THEN None
    ELSE IF mail.body = "" THEN None
    ELSE Some(Row(GroupMailId(mail, uid), <<"googlegroup:", mail.group_key>>,
                  mail.group_key, mail.body))

\* client.uid("SEARCH", None, "ALL"): the UIDs of all mails.
SearchAll(mb) == [i \in 1..Len(mb) |-> mb[i].uid]

\* client.uid("SEARCH", None, f"{k}:*"): imaplib drops the None argument, so
\* the command is UID SEARCH k:* and k:* is a message sequence set.  * is the
\* highest sequence number n, and the set is the range between k and n in
\* either order; the answer lists the UIDs of those mails.
SearchFrom(mb, k) ==
    LET n == Len(mb)
    IN  IF n = 0 THEN <<>>
        ELSE [i \in 1..(n - Min(k, n) + 1) |-> mb[Min(k, n) + i - 1].uid]

MailOfUid(mb, uid) == CHOOSE m \in Range(mb) : m.uid = uid

\* Mutant of FetchLoop: max_uid follows the UIDs found without regard to the
\* stored cursor (max_uid = uid instead of max(max_uid, uid)).
RECURSIVE FetchLoopLastUid(_, _, _, _, _, _)
FetchLoopLastUid(mb, uids, bad, i, max_uid, parsed_messages) ==
    IF i > Len(uids) THEN [max_uid |-> max_uid, parsed |-> parsed_messages]
    ELSE LET uid == uids[i]
             p   == parse_group_email(MailOfUid(mb, uid), uid, GROUP_KEYS)
         IN  FetchLoopLastUid(mb, uids, bad, i + 1, uid,
                              IF uid \in bad \/ p = None THEN parsed_messages
                              ELSE Append(parsed_messages, Val(p)))

\* poll_once lines 302-318: the loop over the UIDs found.  bad: the UIDs
\* whose FETCH answers with a status other than OK or without body.
RECURSIVE FetchLoop(_, _, _, _, _, _)
FetchLoop(mb, uids, bad, i, max_uid, parsed_messages) ==
    IF i > Len(uids) THEN [max_uid |-> max_uid, parsed |-> parsed_messages]
    ELSE LET uid == uids[i]
             p   == parse_group_email(MailOfUid(mb, uid), uid, GROUP_KEYS)
         IN  FetchLoop(mb, uids, bad, i + 1, Max(max_uid, uid),
                       IF uid \in bad \/ p = None THEN parsed_messages
                       ELSE Append(parsed_messages, Val(p)))

\* The client.uid(command, *args) calls of poll_once, each as the command
\* followed by its arguments as passed: lines 280 and 294 pass None and one
\* search criterion, line 305 the UID and the message part.
UidSearchAll      == <<"SEARCH", "None", "ALL">>
UidSearchFrom(k)  == <<"SEARCH", "None", UidName[k], ":*">>
UidFetch(uid)     == <<"FETCH", UidName[uid], "(RFC822)">>

\* poll_once(mailbox) with the stored cursor uid_cursor.  status: what the
\* SEARCH answers.  save: the cursor value written, None when none is.
\* uid_calls: the client.uid calls made, in their order.
poll_once(mb, uid_cursor, status, bad) ==
    IF uid_cursor = None
    THEN LET uids == SearchAll(mb)
         IN  IF status # "OK" \/ uids = <<>>
             THEN [save |-> None, parsed |-> <<>>, uid_calls |-> <<UidSearchAll>>]
             ELSE [save |-> Some(MaxOf(uids)), parsed |-> <<>>,
                   uid_calls |-> <<UidSearchAll>>]
    ELSE LET uids == SearchFrom(mb, Val(uid_cursor) + 1)
         IN  IF status # "OK" \/ uids = <<>>
             THEN [save |-> None, parsed |-> <<>>,
                   uid_calls |-> <<UidSearchFrom(Val(uid_cursor) + 1)>>]
             ELSE LET r == FetchLoop(mb, uids, bad, 1, Val(uid_cursor), <<>>)
                  IN  [save |-> Some(r.max_uid), parsed |-> r.parsed,
                       uid_calls |-> <<UidSearchFrom(Val(uid_cursor) + 1)>>
                                       \o [i \in 1..Len(uids) |-> UidFetch(uids[i])]]

\* History: the mails poll_once fetched and parsed to a row.
MailFetched(mb, uid_cursor, status, bad) ==
    IF uid_cursor = None \/ status # "OK" THEN {}
    ELSE {Fetched("gg", MAILBOX, m.uid, GroupMailId(m, m.uid), m.uid > Val(uid_cursor)) :
            m \in {x \in Range(mb) :
                     /\ x.uid \in Range(SearchFrom(mb, Val(uid_cursor) + 1)) \ bad
                     /\ parse_group_email(x, x.uid, GROUP_KEYS) # None}}

\* History: the SEARCH of this poll answered, and every UID it returned is
\* below the stored cursor.
SearchBelowCursor(mb, uid_cursor, status) ==
    /\ uid_cursor # None
    /\ status = "OK"
    /\ SearchFrom(mb, Val(uid_cursor) + 1) # <<>>
    /\ \A uid \in Range(SearchFrom(mb, Val(uid_cursor) + 1)) : uid < Val(uid_cursor)

\* _load_uid_cursor
load_uid_cursor(state) == LoadState(state, UidCursorKey(MAILBOX))

----------------------------------------------------------------------------
(* The cursor store called directly *)

\* beeper_sync.save_cursor and load_cursor: the sortKey is stored as it is.
save_cursor(state, chat_id, cursor) == SaveState(state, BeeperCursorKey(chat_id), cursor)
load_cursor(state, chat_id)         == LoadState(state, BeeperCursorKey(chat_id))

\* google_groups_sync._save_uid_cursor stores str(uid); _load_uid_cursor
\* returns int(row[0]), and None for no row or a value that is no number.
_save_uid_cursor(state, mailbox, uid) == SaveState(state, UidCursorKey(mailbox), UidName[uid])
_load_uid_cursor(state, mailbox) ==
    LET row == LoadState(state, UidCursorKey(mailbox))
    IN  IF row = None THEN None
        ELSE IF \E k \in 1..Len(UidName) : UidName[k] = Val(row)
        THEN Some(CHOOSE k \in 1..Len(UidName) : UidName[k] = Val(row))
        ELSE None

\* A call of the cursor store: the function, the scope and the token saved.
StoreCall(fn, scope, token) ==
    [fn |-> fn, scope |-> scope, token |-> token,
     batch |-> <<>>, ret |-> 0, raised |-> FALSE, failed |-> FALSE, passed |-> <<>>]

SaveCursor ==
    /\ \E chat_id \in ChatIds, cursor \in 1..MaxMsgs :
         /\ sync_state' = save_cursor(sync_state, chat_id, cursor)
         /\ call' = StoreCall("save_cursor", chat_id, cursor)
    /\ UNCHANGED <<messages, envVars, bp, gg, mx, hist>>

SaveUidCursor ==
    /\ \E uid \in 1..MaxMails :
         /\ sync_state' = _save_uid_cursor(sync_state, MAILBOX, uid)
         /\ call' = StoreCall("_save_uid_cursor", MAILBOX, uid)
    /\ UNCHANGED <<messages, envVars, bp, gg, mx, hist>>

\* beeper_sync.save_active_groups: the snapshot of the ids of the groups.
SaveActiveGroups ==
    /\ \E groups \in SUBSET {<<"c1">>, <<"c3">>} :
         /\ sync_state' = SaveState(sync_state, <<"beeper_active_group_ids", "">>, groups)
         /\ call' = StoreCall("save_active_groups", "", groups)
    /\ UNCHANGED <<messages, envVars, bp, gg, mx, hist>>

\* A mail is delivered to the mailbox and gets the next UID.
GGArrive ==
    /\ gg.pc # "off"
    /\ imap.uidnext <= MaxMails
    /\ \E kind \in MailKinds :
         imap' = [mails   |-> Append(imap.mails, Mail(imap.uidnext, kind)),
                  uidnext |-> imap.uidnext + 1]
    /\ UNCHANGED <<dbVars, beeperApi, hs, bp, gg, mx, call, hist>>

\* A mail is removed from the mailbox (deleted or moved by its owner): the
\* mails after it move up one sequence number, UIDs are not reused.
GGExpunge ==
    /\ gg.pc # "off"
    /\ imap.uidnext - 1 - Len(imap.mails) < MaxExpunged
    /\ \E i \in 1..Len(imap.mails) :
         imap' = [imap EXCEPT !.mails = SubSeq(@, 1, i - 1) \o SubSeq(@, i + 1, Len(@))]
    /\ UNCHANGED <<dbVars, beeperApi, hs, bp, gg, mx, call, hist>>

\* sync_loop lines 336-345: init_db, _save_active_groups.  A database
\* error here ends sync_loop.
GGStart ==
    /\ gg.pc = "start"
    /\ \E outcome \in {"ok", "raise"} :
         IF outcome = "raise"
         THEN /\ gg' = Raised(GGIdle)
              /\ UNCHANGED sync_state
         ELSE /\ gg' = [GGIdle EXCEPT !.pc = "poll"]
              /\ sync_state' = SaveState(sync_state, <<"google_groups_active_group_keys", "">>,
                                         GROUP_KEYS)
    /\ UNCHANGED <<messages, envVars, bp, mx, call, hist>>

\* except Exception (lines 371-374): sleep backoff now, double it after.
GGFail(g) == [g EXCEPT !.pc = "backoff", !.sleep = g.backoff, !.new_messages = <<>>]

\* Lines 369-370: backoff = 1, sleep poll_interval.
GGDone(g) == [g EXCEPT !.pc = "sleep", !.backoff = 1, !.sleep = GG_POLL_INTERVAL,
                       !.new_messages = <<>>]

\* sync_loop line 348: poll_once.  The connection, login, select or a FETCH
\* raises, or poll_once returns; it has then written the cursor (line 320).
\* bad: the UIDs found whose FETCH does not answer OK.
GGPoll ==
    /\ gg.pc = "poll"
    /\ LET uid_cursor == load_uid_cursor(sync_state)
           found      == IF uid_cursor = None THEN <<>>
                         ELSE SearchFrom(imap.mails, Val(uid_cursor) + 1)
       IN  \E outcome \in {"OK", "NO", "raise"},
              bad \in SUBSET Range(found) :
             /\ outcome # "OK" => bad = {}
             /\ IF outcome = "raise"
                THEN /\ gg' = GGFail(gg)
                     /\ hist' = [NoteRetry(hist, "gg", gg.backoff) EXCEPT
                                   !.below = FALSE]
                     /\ UNCHANGED sync_state
                ELSE LET r == poll_once(imap.mails, uid_cursor, outcome, bad)
                     IN  /\ sync_state' = IF r.save = None THEN sync_state
                                          ELSE SaveState(sync_state, UidCursorKey(MAILBOX),
                                                         Val(r.save))
                         /\ IF r.parsed = <<>>
                            THEN /\ gg' = GGDone(gg)
                                 /\ hist' = [NoteSuccess(hist, "gg") EXCEPT
                                               !.below = SearchBelowCursor(imap.mails, uid_cursor, outcome)]
                            ELSE /\ gg' = [gg EXCEPT !.pc = "save", !.new_messages = r.parsed]
                                 /\ hist' = [hist EXCEPT
                                               !.fetched = NoteFetched(@, MailFetched(imap.mails, uid_cursor, outcome, bad)),
                                               !.below = SearchBelowCursor(imap.mails, uid_cursor, outcome)]
    /\ UNCHANGED <<messages, envVars, bp, mx, call>>

\* sync_loop lines 357-368: _save_messages, publish_event, and with saved > 0
\* on_messages(new_messages[:saved]) is called and awaited.
\* fails: the positions whose INSERT raises.
GGSave ==
    /\ gg.pc = "save"
    /\ \E fails \in {{}, {1}}, transport \in Transports :
         LET r == _save_messages(messages, gg.new_messages, fails)
         IN  /\ messages' = r.table
             /\ (r.raised \/ r.count = 0) => transport = "ok"
             /\ IF r.raised \/ (r.count > 0 /\ publish_event(transport).raised)
                THEN /\ gg' = GGFail(gg)
                     /\ hist' = NoteRetry(hist, "gg", gg.backoff)
                ELSE IF r.count > 0
                THEN /\ gg' = [gg EXCEPT !.pc = "callback",
                                         !.new_messages = Prefix(@, r.count)]
                     /\ UNCHANGED hist
                ELSE /\ gg' = GGDone(gg)
                     /\ hist' = NoteSuccess(hist, "gg")
    /\ UNCHANGED <<sync_state, envVars, bp, mx, call>>

\* sync_loop lines 367-374: the awaited on_messages call ends.  It returns,
\* and the loop resets the backoff and sleeps poll_interval; or it raises and
\* the loop sleeps the backoff.
GGCallback ==
    /\ gg.pc = "callback"
    /\ \E outcome \in {"ok", "raise"} :
         IF outcome = "raise"
         THEN /\ gg' = GGFail(gg)
              /\ hist' = NoteRetry(hist, "gg", gg.backoff)
         ELSE /\ gg' = GGDone(gg)
              /\ hist' = NoteSuccess(hist, "gg")
    /\ UNCHANGED <<dbVars, envVars, bp, mx, call>>

GGWake ==
    /\ gg.pc = "sleep"
    /\ gg' = [gg EXCEPT !.pc = "poll", !.sleep = 0]
    /\ UNCHANGED <<dbVars, envVars, bp, mx, call, hist>>

GGRetry ==
    /\ gg.pc = "backoff"
    /\ gg' = [gg EXCEPT !.pc = "poll", !.sleep = 0, !.backoff = NextBackoff(gg.backoff)]
    /\ UNCHANGED <<dbVars, envVars, bp, mx, call, hist>>

GGCaught ==
    /\ gg.pc = "raised"
    /\ gg' = Caught(GGIdle)
    /\ UNCHANGED <<dbVars, envVars, bp, mx, call, hist>>

\* Mutant of GGRestart: one restart loop around both sources, so the restart
\* of the Google Groups source starts the Beeper source afresh too.
GGRestartAll ==
    /\ gg.pc = "cooldown"
    /\ gg' = GGIdle
    /\ bp' = IF bp.pc = "off" THEN bp ELSE BeeperIdle
    /\ UNCHANGED <<dbVars, envVars, mx, call, hist>>

\* run_source_with_restart lines 100-102 for the Google Groups factory.
GGRestart ==
    /\ gg.pc = "cooldown"
    /\ gg' = GGIdle
    /\ hist' = NoteSuccess(hist, "gg")
    /\ UNCHANGED <<dbVars, envVars, bp, mx, call>>

----------------------------------------------------------------------------
(* Matrix supervisor: matrix_sync.sync_loop *)

MatrixIdle ==
    [pc |-> "start", known_rooms |-> <<>>, next_batch |-> None, backoff |-> 1,
     new_batch |-> None, sleep |-> 0, double |-> FALSE]

\* The joined rooms in the order of the sync response, with the bridge and
\* the name their state events carry.
Rooms == <<
    [room_id |-> "!wa",    bridge_name |-> "whatsapp", name |-> "The vibez"],
    [room_id |-> "!slack", bridge_name |-> "slackgo",  name |-> "General"] >>

\* The kinds of timeline event: a text message, a message event without
\* body, a membership event.
EventKinds == {
    [type |-> "m.room.message", body |-> "hi"],
    [type |-> "m.room.message", body |-> ""],
    [type |-> "m.room.member",  body |-> ""] }

Event(k, room_id, kind) ==
    [event_id |-> <<"$", MsgName[k]>>, room_id |-> room_id, pos |-> k,
     type |-> kind.type, body |-> kind.body]

\* parse_message_event
parse_message_event(event, room_id, room_name) ==
    IF event.type # "m.room.message" THEN None
    ELSE Some(Row(event.event_id, room_id, room_name, event.body))

\* GET /_matrix/client/v3/sync.  Without since (the first sync, timeline
\* limit 1): every joined room with its full state and its latest event.
\* With since: the rooms that have events after the token, with those events
\* and no state, the state not having changed.  next_batch is the end of
\* the log.
SyncResponse(log, since) ==
    LET of(room_id)   == SelectSeq(log, LAMBDA e : e.room_id = room_id)
        last(evs)     == IF evs = <<>> THEN <<>> ELSE <<evs[Len(evs)]>>
        after(evs, t) == SelectSeq(evs, LAMBDA e : e.pos > t)
        room(r) ==
            IF since = None
            THEN [room_id |-> r.room_id, state |-> <<r>>, timeline |-> last(of(r.room_id))]
            ELSE [room_id |-> r.room_id, state |-> <<>>,
                  timeline |-> after(of(r.room_id), Val(since))]
        all == [i \in 1..Len(Rooms) |-> room(Rooms[i])]
    IN  [join |-> IF since = None THEN all
                  ELSE SelectSeq(all, LAMBDA j : j.timeline # <<>>),
         next_batch |-> Some(Len(log))]

\* filter_whatsapp_rooms: {room_id: room_name} of the rooms whose state has
\* an m.bridge event of the whatsapp bridge; here as a sequence of pairs.
filter_whatsapp_rooms(join) ==
    LET wa == SelectSeq(join, LAMBDA j : /\ j.state # <<>>
                                         /\ j.state[1].bridge_name = "whatsapp")
    IN  [i \in 1..Len(wa) |-> [room_id |-> wa[i].room_id, name |-> wa[i].state[1].name]]

\* known_rooms.update(new_wa_rooms)
UpdateRooms(known_rooms, new_wa_rooms) ==
    SelectSeq(known_rooms,
              LAMBDA k : \A i \in 1..Len(new_wa_rooms) : new_wa_rooms[i].room_id # k.room_id)
      \o new_wa_rooms

KnownIds(known_rooms) == {known_rooms[i].room_id : i \in 1..Len(known_rooms)}
NameOf(known_rooms, room_id) ==
    (CHOOSE k \in Range(known_rooms) : k.room_id = room_id).name

RECURSIVE ParseEvents(_, _, _, _)
ParseEvents(events, room_id, room_name, i) ==
    IF i > Len(events) THEN <<>>
    ELSE LET p == parse_message_event(events[i], room_id, room_name)
         IN  (IF p = None THEN <<>> ELSE <<Val(p)>>)
               \o ParseEvents(events, room_id, room_name, i + 1)

\* extract_messages_from_sync: the messages of the rooms in known_rooms.
RECURSIVE extract_messages_from_sync(_, _, _)
extract_messages_from_sync(join, known_rooms, i) ==
    IF i > Len(join) THEN <<>>
    ELSE (IF join[i].room_id \notin KnownIds(known_rooms) THEN <<>>
          ELSE ParseEvents(join[i].timeline, join[i].room_id,
                           NameOf(known_rooms, join[i].room_id), 1))
           \o extract_messages_from_sync(join, known_rooms, i + 1)

\* History: the events of a sync response that were extracted as rows.
EventFetched(join, msgs, since) ==
    {Fetched("matrix", "", e.pos, e.event_id, since # None /\ e.pos > Val(since)) :
        e \in {x \in UNION {Range(join[i].timeline) : i \in 1..Len(join)} :
                 x.event_id \in {msgs[k].id : k \in 1..Len(msgs)}}}

\* An event is sent in a joined room.
MatrixArrive ==
    /\ mx.pc # "off"
    /\ Len(hs) < MaxMsgs
    /\ \E i \in 1..Len(Rooms), kind \in EventKinds :
         hs' = Append(hs, Event(Len(hs) + 1, Rooms[i].room_id, kind))
    /\ UNCHANGED <<dbVars, beeperApi, imap, bp, gg, mx, call, hist>>

\* sync_loop lines 129-134
MatrixStart ==
    /\ mx.pc = "start"
    /\ mx' = [MatrixIdle EXCEPT !.pc = "sync",
                                !.next_batch = LoadState(sync_state, NextBatchKey)]
    /\ UNCHANGED <<dbVars, envVars, bp, gg, call, hist>>

\* The except clauses that sleep min(backoff, 300) and double the backoff
\* (lines 179-189).
MatrixFail(m) ==
    [m EXCEPT !.pc = "backoff", !.sleep = Min(m.backoff, BACKOFF_CEILING),
              !.double = TRUE, !.new_batch = None]

\* The Retry-After header of a 429 answer: absent, a number of seconds, or
\* an HTTP date.
RetryAfterHeaders == {"absent", "1", "600", "date"}

\* int(e.response.headers.get("Retry-After", str(backoff))): None stands for
\* the ValueError of a header that is not a number.
RetryAfter(header, backoff) ==
    CASE header = "absent" -> Some(backoff)
      [] header = "1"      -> Some(1)
      [] header = "600"    -> Some(600)
      [] OTHER             -> None

\* Lines 176-178: status 429 sleeps retry_after and leaves backoff alone.
MatrixRateLimited(m, retry_after) ==
    [m EXCEPT !.pc = "backoff", !.sleep = retry_after, !.double = FALSE,
              !.new_batch = None]

\* One iteration of the loop up to line 165: the sync request, the room
\* filter, extraction, save_messages and on_messages.  The request answers,
\* or fails with status 429, with another status, or in transport.
MatrixSync ==
    /\ mx.pc = "sync"
    /\ \E outcome \in {"ok", "429", "500", "connect"} :
         CASE outcome = "ok" ->
               LET data     == SyncResponse(hs, mx.next_batch)
                   known    == UpdateRooms(mx.known_rooms, filter_whatsapp_rooms(data.join))
                   msgs     == extract_messages_from_sync(data.join, known, 1)
               IN  \E fails \in {{}, {1}}, cb \in {"ok", "raise"} :
                     LET r == save_messages(messages, msgs, fails)
                     IN  /\ messages' = r.table
                         /\ cb = "raise" => r.count > 0
                         /\ IF cb = "raise"
                            THEN /\ mx' = [MatrixFail(mx) EXCEPT !.known_rooms = known]
                                 /\ hist' = [NoteRetry(hist, "matrix", Min(mx.backoff, BACKOFF_CEILING))
                                               EXCEPT !.fetched = NoteFetched(@, EventFetched(data.join, msgs, mx.next_batch))]
                            ELSE /\ mx' = [mx EXCEPT !.pc = "token", !.known_rooms = known,
                                                     !.new_batch = data.next_batch]
                                 /\ hist' = [hist EXCEPT !.fetched = NoteFetched(@, EventFetched(data.join, msgs, mx.next_batch))]
           [] outcome = "429" ->
               /\ \E header \in RetryAfterHeaders :
                    LET retry_after == RetryAfter(header, mx.backoff)
                    IN  IF retry_after = None
                        THEN /\ mx' = Raised(MatrixIdle)
                             /\ UNCHANGED hist
                        ELSE /\ mx' = MatrixRateLimited(mx, Val(retry_after))
                             /\ hist' = NoteRetry(hist, "matrix", Val(retry_after))
               /\ UNCHANGED messages
           [] OTHER ->
               /\ mx' = MatrixFail(mx)
               /\ hist' = NoteRetry(hist, "matrix", Min(mx.backoff, BACKOFF_CEILING))
               /\ UNCHANGED messages
    /\ UNCHANGED <<sync_state, envVars, bp, gg, call>>

\* Lines 167-172: next_batch = new_batch, save_sync_token, backoff = 1.
MatrixToken ==
    /\ mx.pc = "token"
    /\ sync_state' = SaveState(sync_state, NextBatchKey, Val(mx.new_batch))
    /\ mx' = [mx EXCEPT !.pc = "sync", !.next_batch = mx.new_batch, !.new_batch = None,
                        !.backoff = 1]
    /\ hist' = NoteSuccess(hist, "matrix")
    /\ UNCHANGED <<messages, envVars, bp, gg, call>>

\* The sleep of an except clause is over.
MatrixRetry ==
    /\ mx.pc = "backoff"
    /\ mx' = [mx EXCEPT !.pc = "sync", !.sleep = 0, !.double = FALSE,
                        !.backoff = IF mx.double THEN NextBackoff(mx.backoff) ELSE mx.backoff]
    /\ UNCHANGED <<dbVars, envVars, bp, gg, call, hist>>

\* The Matrix service is killed, or has stopped, and is started again.
MatrixKill ==
    /\ mx.pc \notin {"start", "off"}
    /\ mx' = MatrixIdle
    /\ hist' = [NoteSuccess(hist, "matrix") EXCEPT !.killed = TRUE]
    /\ UNCHANGED <<dbVars, envVars, bp, gg, call>>

----------------------------------------------------------------------------
(* The process is killed and started again: every supervisor of run_sync    *)
(* loses its frame, the database stays.                                     *)

\* A source that is not enabled (run_sync lines 37-38, 108, 123) has no
\* task: its supervisor stays "off".
Off(idle) == [idle EXCEPT !.pc = "off"]

ProcessKill ==
    /\ bp.pc \notin {"start", "off"} \/ gg.pc \notin {"start", "off"}
    /\ bp' = IF bp.pc = "off" THEN bp ELSE BeeperIdle
    /\ gg' = IF gg.pc = "off" THEN gg ELSE GGIdle
    /\ hist' = [NoteSuccess(NoteSuccess(hist, "beeper"), "gg")
                   EXCEPT !.killed = TRUE, !.b401 = FALSE, !.below = FALSE]
    /\ UNCHANGED <<dbVars, envVars, mx, call>>

----------------------------------------------------------------------------
(* Direct calls of the save functions *)

\* failed: an INSERT of the call raised.  passed: the list on_messages was
\* called with, None when it was not called.
NoCall ==
    [fn |-> "none", batch |-> <<>>, ret |-> 0, raised |-> FALSE, failed |-> FALSE,
     passed |-> None]

\* The rows a batch is built from: two ids, each with two contents.
PoolRows ==
    {Row(<<id>>, <<"r">>, name, "hi") : id \in {"a", "b"}, name \in {"old", "new"}}

Batches == SeqsUpTo(PoolRows, MaxBatch)

SaveBeeper ==
    /\ \E batch \in Batches, fails \in {{}, {1}} :
         LET r == save_messages(messages, batch, fails)
         IN  /\ messages' = r.table
             /\ call' = [fn |-> "save_messages", batch |-> batch,
                         ret |-> r.count, raised |-> r.raised,
                         failed |-> fails \cap (1..Len(batch)) # {}, passed |-> None]
    /\ UNCHANGED <<sync_state, envVars, bp, gg, mx, hist>>

SaveGoogleGroups ==
    /\ \E batch \in Batches, fails \in {{}, {1}} :
         LET r == _save_messages(messages, batch, fails)
         IN  /\ messages' = r.table
             /\ call' = [fn |-> "_save_messages", batch |-> batch,
                         ret |-> r.count, raised |-> r.raised,
                         failed |-> fails \cap (1..Len(batch)) # {}, passed |-> None]
    /\ UNCHANGED <<sync_state, envVars, bp, gg, mx, hist>>

\* What a cycle hands to on_messages, None when it does not call it.
OnMessages(new_messages) == IF new_messages # <<>> THEN Some(new_messages) ELSE None

\* beeper_sync.poll_once lines 251-258 and sync_loop lines 309-312 for one
\* group whose fetch parsed to batch: save_messages, all_new.extend(
\* parsed[:saved]), on_messages(new_messages) when new_messages is not empty.
CycleBeeper ==
    /\ \E batch \in Batches, fails \in {{}, {1}} :
         LET r == save_messages(messages, batch, fails)
         IN  /\ messages' = r.table
             /\ call' = [fn |-> "beeper.sync_loop", batch |-> batch,
                         ret |-> r.count, raised |-> r.raised,
                         failed |-> fails \cap (1..Len(batch)) # {},
                         passed |-> OnMessages(Prefix(batch, r.count))]
    /\ UNCHANGED <<sync_state, envVars, bp, gg, mx, hist>>

\* google_groups_sync.sync_loop lines 357-368 for a poll that returned batch:
\* saved = _save_messages, on_messages(new_messages[:saved]) when saved.
CycleGoogleGroups ==
    /\ \E batch \in Batches, fails \in {{}, {1}} :
         LET r == _save_messages(messages, batch, fails)
         IN  /\ messages' = r.table
             /\ call' = [fn |-> "google_groups.sync_loop", batch |-> batch,
                         ret |-> r.count, raised |-> r.raised,
                         failed |-> fails \cap (1..Len(batch)) # {},
                         passed |-> IF r.raised THEN None
                                    ELSE OnMessages(Prefix(batch, r.count))]
    /\ UNCHANGED <<sync_state, envVars, bp, gg, mx, hist>>

\* matrix_sync.sync_loop lines 161-165 for a sync that extracted batch:
\* saved = save_messages, on_messages(messages) when saved > 0.
CycleMatrix ==
    /\ \E batch \in Batches, fails \in {{}, {1}} :
         LET r == save_messages(messages, batch, fails)
         IN  /\ messages' = r.table
             /\ call' = [fn |-> "matrix.sync_loop", batch |-> batch,
                         ret |-> r.count, raised |-> r.raised,
                         failed |-> fails \cap (1..Len(batch)) # {},
                         passed |-> IF r.count > 0 THEN Some(batch) ELSE None]
    /\ UNCHANGED <<sync_state, envVars, bp, gg, mx, hist>>

----------------------------------------------------------------------------
(* Direct calls of the normalizers *)

\* A call of a normalizer: the source-native message msg (and its UID), the
\* other arguments and the clock of the call, whether it raised, and the row
\* it returned (None for None) with the timestamp the row carries.  prev:
\* when the call before was of the same normalizer on the same message (and
\* UID), what that call returned and its clock, otherwise None.
Parsed(fn, msg, uid, room_name, allowed_groups, now, raised, out, ts) ==
    [fn |-> fn, msg |-> msg, uid |-> uid, room_name |-> room_name,
     allowed_groups |-> allowed_groups, now |-> now, raised |-> raised,
     out |-> out, ts |-> ts,
     prev |-> IF call.fn = fn /\ call.msg = msg /\ call.uid = uid
              THEN Some([out |-> call.out, ts |-> call.ts, now |-> call.now,
                         room_name |-> call.room_name])
              ELSE None,
     batch |-> <<>>, ret |-> 0, failed |-> FALSE, passed |-> None]

Clock == {2, 3}     \* the times at which a normalizer is called

\* The titles a group is discovered with, before and after it is renamed.
Titles == {"The vibez", "Renamed"}

\* The raw emails: with or without a list header, body, Message-Id and Date.
RawMails ==
    [uid : {0}, group_key : {"vibez", "other", ""}, body : {"hi", ""},
     message_id : {"m1", ""}, date : {"Thu", ""}]

\* A /v1/chats answer whose items carry accountID and, some of them, no
\* network field ("" stands for the None of c.get("network")).
ChatItems == {
    [id |-> <<"g1">>, title |-> "The vibez", network |-> "", accountID |-> "whatsapp",
     type |-> "group"],
    [id |-> <<"g2">>, title |-> "Direct thread", network |-> "", accountID |-> "whatsapp",
     type |-> "dm"],
    [id |-> <<"g3">>, title |-> "General", network |-> "", accountID |-> "slackgo.T123",
     type |-> "group"],
    [id |-> <<"g4">>, title |-> "Off-topic", network |-> "WhatsApp", accountID |-> "whatsapp",
     type |-> "group"] }

MaxChats == 2

\* get_whatsapp_groups called on an answer of /v1/chats, with the default
\* excluded groups.
DiscoverGroups ==
    /\ \E items \in SeqsUpTo(ChatItems, MaxChats) :
         call' = [fn |-> "get_whatsapp_groups", items |-> items,
                  groups |-> get_whatsapp_groups(items, DEFAULT_EXCLUDED_GROUPS),
                  batch |-> <<>>, ret |-> 0, raised |-> FALSE, failed |-> FALSE,
                  passed |-> None]
    /\ UNCHANGED <<dbVars, envVars, bp, gg, mx, hist>>

\* Text messages whose chatID or id holds the character "-": the API gives
\* both as strings and the code accepts any.
HyphenMsgs ==
    {[BeeperMsg(<<"c1">>, 1, [type |-> "TEXT", text |-> "hi", hasTs |-> TRUE])
        EXCEPT !.chatID = p[1], !.id = p[2]] :
       p \in {<< <<"c1", "-", "x">>, <<"m1">> >>,
              << <<"c1">>, <<"x", "-", "m1">> >>}}

\* The kinds of BeeperKinds and the placeholder Beeper shows for a message
\* it could not decrypt.
ParseBeeper ==
    /\ \E msg \in {BeeperMsg(c, k, kind) :
                      c \in Monitored, k \in 1..MaxMsgs,
                      kind \in BeeperKinds \cup {[type |-> "TEXT", text |-> "Encrypted",
                                                  hasTs |-> TRUE]}}
                   \cup HyphenMsgs,
          title \in Titles, now \in Clock :
         LET p == parse_beeper_message(msg, title)
         IN  call' = Parsed("parse_beeper_message", msg, 0, title, {}, now,
                            p.raised, p.row, 1)
    /\ UNCHANGED <<dbVars, envVars, bp, gg, mx, hist>>

ParseGroupEmail ==
    /\ \E mail \in RawMails, uid \in 1..MaxMails,
          allowed_groups \in SUBSET {"vibez", "other"}, now \in Clock :
         call' = Parsed("parse_group_email", mail, uid, "", allowed_groups, now,
                        FALSE, parse_group_email(mail, uid, allowed_groups),
                        MailTimestamp(mail, now))
    /\ UNCHANGED <<dbVars, envVars, bp, gg, mx, hist>>

ParseMatrix ==
    /\ \E k \in 1..MaxMsgs, kind \in EventKinds, title \in Titles, now \in Clock :
         LET event == Event(k, Rooms[1].room_id, kind)
         IN  call' = Parsed("parse_message_event", event, 0, title, {}, now,
                            FALSE, parse_message_event(event, event.room_id, title), 1)
    /\ UNCHANGED <<dbVars, envVars, bp, gg, mx, hist>>

----------------------------------------------------------------------------
(* A direct call of google_groups_sync.poll_once *)

\* The mailboxes: for each UID up to MaxMails no mail or a mail of one of the
\* kinds, in the order of the UIDs.
Mailboxes ==
    LET uidsOf(f) == {u \in 1..MaxMails : f[u] # "none"}
        nth(f, k) == CHOOSE u \in uidsOf(f) : Cardinality({v \in uidsOf(f) : v <= u}) = k
    IN  {[mails   |-> [k \in 1..Cardinality(uidsOf(f)) |->
                         Mail(nth(f, k), [group_key |-> f[nth(f, k)], body |-> "hi"])],
          uidnext |-> MaxMails + 1] :
            f \in [1..MaxMails -> {"none", "vibez", "other"}]}

\* poll_once is called once on the mailbox and the stored cursor: the cursor
\* it loaded, what the SEARCH answered, the client.uid calls it made and
\* what it returned.
PollOnce ==
    /\ call.fn = "none"
    /\ \E status \in {"OK", "NO"} :
         LET uid_cursor == load_uid_cursor(sync_state)
             found == IF status # "OK" THEN <<>>
                      ELSE IF uid_cursor = None THEN SearchAll(imap.mails)
                      ELSE SearchFrom(imap.mails, Val(uid_cursor) + 1)
             r == poll_once(imap.mails, uid_cursor, status, {})
         IN  /\ call' = [fn |-> "poll_once", uid_cursor |-> uid_cursor, found |-> found,
                         uid_calls |-> r.uid_calls, out |-> r.parsed]
             /\ sync_state' = IF r.save = None THEN sync_state
                              ELSE SaveState(sync_state, UidCursorKey(MAILBOX), Val(r.save))
    /\ UNCHANGED <<messages, envVars, bp, gg, mx, hist>>

----------------------------------------------------------------------------
(* google_groups_sync._strip_quoted_text *)

MaxLines == 4

\* A line of a body: its leading whitespace and its words.
Line(lead, words) == [lead |-> lead, words |-> words]

\* The lines a body is made of: text, an empty and a whitespace-only line,
\* attribution lines (plain, indented and in other case, and one without
\* anything between "On" and "wrote:"), quoted lines, a header line.
BodyLines == {
    Line("",  <<"New", "thought", "here.">>),
    Line("",  <<>>),
    Line(" ", <<>>),
    Line("",  <<"On", "Wed", "someone", "wrote:">>),
    Line(" ", <<"on", "wed", "someone", "WROTE:">>),
    Line("",  <<"On", "wrote:">>),
    Line("",  <<">", "quoted", "text">>),
    Line(" ", <<">", "quoted", "text">>),
    Line("",  <<"From:", "someone">>) }

\* str.lower() on the words that the conditions look at.
LowerWord(w) ==
    CASE w = "On"     -> "on"
      [] w = "WROTE:" -> "wrote:"
      [] w = "From:"  -> "from:"
      [] OTHER        -> w

\* _QUOTE_BREAK_RE.match(compact): ^On .+wrote:\s*$ with IGNORECASE, on the
\* stripped line: "On ", at least one character, "wrote:" at the end.
QuoteBreak(compact) ==
    /\ Len(compact) >= 3
    /\ LowerWord(compact[1]) = "on"
    /\ LowerWord(compact[Len(compact)]) = "wrote:"

\* Mutant of KeptLines: the attribution line is skipped like a quoted line
\* (continue instead of break).
RECURSIVE KeptLinesNoBreak(_, _, _)
KeptLinesNoBreak(lines, i, kept) ==
    IF i > Len(lines) THEN kept
    ELSE LET compact == lines[i].words
         IN  IF QuoteBreak(compact) THEN KeptLinesNoBreak(lines, i + 1, kept)
             ELSE IF compact # <<>> /\ compact[1] = ">"
             THEN KeptLinesNoBreak(lines, i + 1, kept)
             ELSE IF Len(compact) >= 2 /\ LowerWord(compact[1]) = "from:" /\ kept # <<>>
             THEN kept
             ELSE KeptLinesNoBreak(lines, i + 1, Append(kept, lines[i]))

\* Lines 121-130: the loop over the lines from position i.  compact is the
\* stripped line; the loop ends at an attribution line and at a "From: "
\* line after something was kept, and skips the lines that start with ">".
RECURSIVE KeptLines(_, _, _)
KeptLines(lines, i, kept) ==
    IF i > Len(lines) THEN kept
    ELSE LET compact == lines[i].words
         IN  IF QuoteBreak(compact) THEN kept
             ELSE IF compact # <<>> /\ compact[1] = ">"
             THEN KeptLines(lines, i + 1, kept)
             ELSE IF Len(compact) >= 2 /\ LowerWord(compact[1]) = "from:" /\ kept # <<>>
             THEN kept
             ELSE KeptLines(lines, i + 1, Append(kept, lines[i]))

\* Lines 131-132: "\n".join(kept).strip() drops the whitespace-only lines at
\* both ends and the leading whitespace of the first line left;
\* re.sub(r"\n{3,}", "\n\n") keeps one of each run of empty lines.
_strip_quoted_text(lines) ==
    LET kept    == KeptLines(lines, 1, <<>>)
        full    == {i \in 1..Len(kept) : kept[i].words # <<>>}
        lo      == CHOOSE i \in full : \A j \in full : i <= j
        hi      == CHOOSE i \in full : \A j \in full : j <= i
        cleaned == IF full = {} THEN <<>>
                   ELSE [i \in 1..(hi - lo + 1) |->
                           IF i = 1 THEN Line("", kept[lo].words) ELSE kept[lo + i - 1]]
        empty(l) == l.lead = "" /\ l.words = <<>>
        first(i) == i = 1 \/ ~empty(cleaned[i]) \/ ~empty(cleaned[i - 1])
    IN  IF cleaned = <<>> THEN <<>>
        ELSE LET keep == {i \in 1..Len(cleaned) : first(i)}
                 nth(k) == CHOOSE i \in keep : Cardinality({j \in keep : j <= i}) = k
             IN  [k \in 1..Cardinality(keep) |-> cleaned[nth(k)]]

\* _strip_quoted_text is called on the body held in call.
StripQuotedText ==
    /\ call.fn = "body"
    /\ call' = [call EXCEPT !.fn = "_strip_quoted_text",
                            !.out = _strip_quoted_text(call.lines)]
    /\ UNCHANGED <<dbVars, envVars, bp, gg, mx, hist>>

----------------------------------------------------------------------------
(* Initial states *)

StateKeys ==
    {BeeperCursorKey(c) : c \in ChatIds}
      \cup {UidCursorKey("INBOX"), NextBatchKey,
            <<"beeper_active_group_ids", "">>,
            <<"google_groups_active_group_keys", "">>}

TextKind == [type |-> "TEXT", text |-> "hi", hasTs |-> TRUE]

\* What the chats hold before the service first starts: nothing or one text
\* message in each monitored chat, one text message in the excluded chat.
BeeperHistories ==
    {[c \in ChatIds |->
        IF c = <<"c2">> THEN <<BeeperMsg(c, 1, TextKind)>>
        ELSE IF c \in old THEN <<BeeperMsg(c, 1, TextKind)>>
        ELSE <<>>] : old \in SUBSET Monitored}

OldBeeperIds(api) ==
    {BeeperId(c, api[c][i].id) : c \in {d \in ChatIds : api[d] # <<>>}, i \in {1}}

InitDb ==
    /\ messages = {}
    /\ sync_state = [k \in StateKeys |-> None]

InitCommon ==
    /\ InitDb
    /\ call = NoCall

NoBeeper == [c \in ChatIds |-> <<>>]

InitHist(old) ==
    hist = [retry   |-> [beeper |-> 0, gg |-> 0, matrix |-> 0],
            cyc     |-> 0,
            old     |-> old,
            fetched |-> {},
            b401    |-> FALSE,
            below   |-> FALSE,
            killed  |-> FALSE]

NoMail == [mails |-> <<>>, uidnext |-> 1]

\* What the mailbox holds before the service first starts: nothing, or one
\* mail of the configured list with UID 1.
MailHistories ==
    {NoMail,
     [mails |-> <<Mail(1, [group_key |-> "vibez", body |-> "hi"])>>, uidnext |-> 2]}

OldMailIds(mb) == {GroupMailId(mb.mails[i], mb.mails[i].uid) : i \in 1..Len(mb.mails)}

\* What the rooms hold before the service first starts: nothing, or one
\* text message in the WhatsApp room.
MatrixHistories ==
    {<<>>, <<Event(1, "!wa", [type |-> "m.room.message", body |-> "hi"])>>}

OldEventIds(log) == {log[i].event_id : i \in 1..Len(log)}

----------------------------------------------------------------------------
(* Specifications *)

\* The save functions called directly on a database.
InitSave ==
    /\ InitCommon
    /\ bp = Off(BeeperIdle) /\ gg = Off(GGIdle) /\ mx = Off(MatrixIdle)
    /\ beeperApi = NoBeeper /\ imap = NoMail /\ hs = <<>>
    /\ InitHist({})

NextSave == SaveBeeper \/ SaveGoogleGroups

SpecSave == InitSave /\ [][NextSave]_vars

\* The save and dispatch of a cycle of each source applied to batches.
NextCycle ==
    \/ CycleBeeper
    \/ CycleGoogleGroups
    \/ CycleMatrix

SpecCycle == InitSave /\ [][NextCycle]_vars

\* poll_once called on a mailbox, without a stored cursor or with a stored
\* cursor of any UID the mailbox can have held.
InitPoll ==
    /\ messages = {}
    /\ \E c \in {None} \cup {Some(n) : n \in 1..MaxMails} :
         sync_state = [k \in StateKeys |-> IF k = UidCursorKey(MAILBOX) THEN c ELSE None]
    /\ call = NoCall
    /\ bp = Off(BeeperIdle) /\ gg = Off(GGIdle) /\ mx = Off(MatrixIdle)
    /\ beeperApi = NoBeeper /\ imap \in Mailboxes /\ hs = <<>>
    /\ InitHist({})

SpecPoll == InitPoll /\ [][PollOnce]_vars

\* _strip_quoted_text called on a body of up to MaxLines lines.
InitStrip ==
    /\ InitDb
    /\ call \in {[fn |-> "body", lines |-> lines, out |-> <<>>] :
                    lines \in SeqsUpTo(BodyLines, MaxLines)}
    /\ bp = Off(BeeperIdle) /\ gg = Off(GGIdle) /\ mx = Off(MatrixIdle)
    /\ beeperApi = NoBeeper /\ imap = NoMail /\ hs = <<>>
    /\ InitHist({})

SpecStrip == InitStrip /\ [][StripQuotedText]_vars

\* fetch_new_messages called directly on a chat of n text messages, without
\* cursor or with the sortKey of one of its messages (0: of a message older
\* than all of them).
FetchNewMessages ==
    /\ \E c \in Monitored, n \in 0..(MaxMsgs + 1),
          after_cursor \in {None} \cup {Some(k) : k \in 0..MaxMsgs} :
         LET msgs == [k \in 1..n |-> BeeperMsg(c, k, TextKind)]
             r    == fetch_new_messages(msgs, after_cursor)
         IN  call' = [fn |-> "fetch_new_messages", msgs |-> msgs,
                      after_cursor |-> after_cursor, items |-> r.items,
                      cursor |-> r.cursor, nreq |-> r.nreq,
                      batch |-> <<>>, ret |-> 0, raised |-> FALSE, failed |-> FALSE,
                      passed |-> None]
    /\ UNCHANGED <<dbVars, envVars, bp, gg, mx, hist>>

\* The cursor store called directly on a database.
NextStore == SaveCursor \/ SaveUidCursor \/ SaveActiveGroups

SpecStore == InitSave /\ [][NextStore]_vars

----------------------------------------------------------------------------
(* db.py: the schema and init_db *)

\* The tables of SCHEMA.
TableNames ==
    {"messages", "classifications", "daily_reports", "value_config", "sync_state"}

\* The keys of DEFAULT_VALUE_CONFIG.
DEFAULT_VALUE_CONFIG == {"topics", "projects", "alert_threshold"}

\* The columns _migrate adds to databases created by an older version.
MigratedColumns == {"contribution_themes", "daily_memo", "conversation_arcs"}

\* Mutant of CreateTableIfNotExists: CREATE TABLE that adds a table whatever
\* the database holds.
CreateTable(tables, t) == [tables EXCEPT ![t] = @ + 1]

\* CREATE TABLE IF NOT EXISTS t: tables[t] is the number of tables named t.
CreateTableIfNotExists(tables, t) ==
    IF tables[t] > 0 THEN tables ELSE [tables EXCEPT ![t] = 1]

\* _migrate: ALTER TABLE ... ADD COLUMN for each column that is missing.
_migrate(columns) == columns \cup {c \in MigratedColumns : c \notin columns}

\* init_db: executescript(SCHEMA), _migrate, and the seed of value_config
\* when SELECT COUNT(*) FROM value_config is 0.  The rows of value_config are
\* pairs <<key, value>>.
init_db(db) ==
    [db EXCEPT
       !.tables       = [t \in TableNames |-> CreateTableIfNotExists(@, t)[t]],
       !.columns      = _migrate(@),
       !.value_config = IF @ = {}
                        THEN {<<key, "default">> : key \in DEFAULT_VALUE_CONFIG}
                        ELSE @]

\* A database file that does not exist yet.
FreshDb ==
    [tables |-> [t \in TableNames |-> 0], columns |-> {}, value_config |-> {},
     messages |-> {}, sync_state |-> [k \in StateKeys |-> None]]

\* The databases init_db can be called on when the tables hold the rows m
\* and s: initialized by this or an older version, value_config as seeded,
\* edited by the user or emptied; or no database yet when there are no rows.
Databases(m, s) ==
    {[tables |-> [t \in TableNames |-> 1], columns |-> c, value_config |-> vc,
      messages |-> m, sync_state |-> s] :
        c \in {{}, MigratedColumns},
        vc \in {{<<key, "default">> : key \in DEFAULT_VALUE_CONFIG},
                {<<"topics", "edited">>}, {}}}
      \cup (IF m = {} /\ s = [k \in StateKeys |-> None] THEN {FreshDb} ELSE {})

\* A service starts or restarts and calls init_db(db_path).
InitDbCall ==
    /\ \E db \in Databases(messages, sync_state) :
         LET r == init_db(db)
         IN  /\ messages' = r.messages
             /\ sync_state' = r.sync_state
             /\ call' = [fn |-> "init_db", before |-> db, after |-> r]
    /\ UNCHANGED <<envVars, bp, gg, mx, hist>>

\* The rows a database holds when a service starts: messages with distinct
\* ids, a Beeper cursor and a UID cursor, each stored or not.
InitStored ==
    /\ messages \in {t \in SUBSET PoolRows : \A r1, r2 \in t : r1.id = r2.id => r1 = r2}
    /\ \E cursor \in {None} \cup {Some(k) : k \in 1..MaxMsgs},
          uid \in {None} \cup {Some(UidName[k]) : k \in 1..MaxMails} :
         sync_state = [k \in StateKeys |->
                         IF k = BeeperCursorKey(<<"c1">>) THEN cursor
                         ELSE IF k = UidCursorKey(MAILBOX) THEN uid ELSE None]
    /\ call = NoCall
    /\ bp = Off(BeeperIdle) /\ gg = Off(GGIdle) /\ mx = Off(MatrixIdle)
    /\ beeperApi = NoBeeper /\ imap = NoMail /\ hs = <<>>
    /\ InitHist({})

\* init_db called, any number of times, on a database with or without rows.
SpecInitDb == InitStored /\ [][InitDbCall]_vars

\* The normalizers and the other pure functions of the sources, called
\* directly.
NextParse ==
    \/ ParseBeeper
    \/ DiscoverGroups
    \/ FetchNewMessages
    \/ ParseGroupEmail
    \/ ParseMatrix

SpecParse == InitSave /\ [][NextParse]_vars

\* run_sync with only the Beeper source enabled.
InitBeeper ==
    /\ InitCommon
    /\ bp = BeeperIdle /\ gg = Off(GGIdle) /\ mx = Off(MatrixIdle)
    /\ beeperApi \in BeeperHistories /\ imap = NoMail /\ hs = <<>>
    /\ InitHist(OldBeeperIds(beeperApi))

\* run_sync with only the Google Groups source enabled.
InitGG ==
    /\ InitCommon
    /\ bp = Off(BeeperIdle) /\ gg = GGIdle /\ mx = Off(MatrixIdle)
    /\ beeperApi = NoBeeper /\ imap \in MailHistories /\ hs = <<>>
    /\ InitHist(OldMailIds(imap))

\* The Matrix sync service.
InitMatrix ==
    /\ InitCommon
    /\ bp = Off(BeeperIdle) /\ gg = Off(GGIdle) /\ mx = MatrixIdle
    /\ beeperApi = NoBeeper /\ imap = NoMail /\ hs \in MatrixHistories
    /\ InitHist(OldEventIds(hs))

NextBeeper ==
    \/ BeeperArrive
    \/ BeeperDiscover
    \/ BeeperSeed
    \/ BeeperFetch
    \/ BeeperSave
    \/ BeeperAdvance
    \/ BeeperDispatch
    \/ BeeperCallback
    \/ BeeperWake
    \/ BeeperRetry
    \/ BeeperCaught
    \/ BeeperRestart

NextGG ==
    \/ GGArrive
    \/ GGExpunge
    \/ GGStart
    \/ GGPoll
    \/ GGSave
    \/ GGCallback
    \/ GGWake
    \/ GGRetry
    \/ GGCaught
    \/ GGRestart

NextMatrix ==
    \/ MatrixArrive
    \/ MatrixStart
    \/ MatrixSync
    \/ MatrixToken
    \/ MatrixRetry
    \/ MatrixKill

SpecBeeper == InitBeeper /\ [][NextBeeper \/ ProcessKill]_vars

SpecGG == InitGG /\ [][NextGG \/ ProcessKill]_vars

SpecMatrix == InitMatrix /\ [][NextMatrix]_vars

\* The two sources run_sync starts, each on its own, with messages arriving,
\* failures and restarts by the wrapper.
SpecSources == (InitBeeper \/ InitGG) /\ [][NextBeeper \/ NextGG]_vars

Init == InitBeeper \/ InitGG \/ InitMatrix

Next == NextBeeper \/ NextGG \/ NextMatrix \/ ProcessKill

\* Each sync service on its own, with messages arriving and the process
\* being killed at any point.
Spec == Init /\ [][Next]_vars

\* run_sync with both sources enabled, the sources holding what they held
\* before the start.
InitRun ==
    /\ InitCommon
    /\ bp = BeeperIdle /\ gg = GGIdle /\ mx = Off(MatrixIdle)
    /\ beeperApi \in BeeperHistories /\ imap \in MailHistories /\ hs = <<>>
    /\ InitHist(OldBeeperIds(beeperApi) \cup OldMailIds(imap))

NextRun ==
    \/ BeeperDiscover
    \/ BeeperSeed
    \/ BeeperFetch
    \/ BeeperSave
    \/ BeeperAdvance
    \/ BeeperDispatch
    \/ BeeperCallback
    \/ BeeperWake
    \/ BeeperRetry
    \/ BeeperCaught
    \/ BeeperRestart
    \/ GGStart
    \/ GGPoll
    \/ GGSave
    \/ GGCallback
    \/ GGWake
    \/ GGRetry
    \/ GGCaught
    \/ GGRestart

SpecRun == InitRun /\ [][NextRun]_vars

----------------------------------------------------------------------------
(* Claims *)

\* The stored cursor of the scope of a fetched item.
CursorOf(f) ==
    CASE f.src = "beeper" -> LoadState(sync_state, BeeperCursorKey(f.scope))
      [] f.src = "gg"     -> LoadState(sync_state, UidCursorKey(MAILBOX))
      [] OTHER            -> LoadState(sync_state, NextBatchKey)

\* The cursor marks the item as processed.
Covered(f) == CursorOf(f) # None /\ Val(CursorOf(f)) >= f.pos

Stored(f) == f.id \in Ids(messages)

\* The item is held by its supervisor, between the fetch and the save.
InFlight(f) ==
    \/ /\ f.src = "beeper" /\ bp.pc = "save"
       /\ \E i \in 1..Len(bp.raw_msgs) :
            BeeperId(bp.raw_msgs[i].chatID, bp.raw_msgs[i].id) = f.id
    \/ /\ f.src = "gg" /\ gg.pc = "save"
       /\ \E i \in 1..Len(gg.new_messages) : gg.new_messages[i].id = f.id

\* The next fetch from the stored cursor returns the item again.
Refetchable(f) ==
    CASE f.src = "beeper" ->
           \E m \in Range(fetch_new_messages(beeperApi[f.scope], CursorOf(f)).items) :
              m.sortKey = f.pos
      [] f.src = "gg" ->
           /\ CursorOf(f) # None
           /\ f.pos \in Range(SearchFrom(imap.mails, Val(CursorOf(f)) + 1))
      [] OTHER ->
           CursorOf(f) = None \/ Val(CursorOf(f)) < f.pos

\* C1: the messages table holds at most one row per id, and a save of a
\* batch whose ids are all stored leaves the table as it was and, when it
\* returns, returns 0.
C1_SaveIdempotent ==
    /\ [](\A r1, r2 \in messages : r1.id = r2.id => r1 = r2)
    /\ [][(\A i \in 1..Len(call'.batch) : call'.batch[i].id \in Ids(messages))
            => (~call'.raised => call'.ret = 0) /\ messages' = messages]_vars

\* A batch with one id twice, all of whose ids were stored, has been saved.
C1_Witness ==
    /\ Len(call.batch) >= 2
    /\ call.batch[1].id = call.batch[2].id
    /\ call.batch[1] # call.batch[2]
    /\ \A i \in 1..Len(call.batch) : call.batch[i].id \in Ids(messages)
    /\ call.ret = 0
    /\ ~call.raised

\* C2: a step changes the stored cursor of a scope to a value that covers a
\* fetched, parseable message only when that message is in the messages
\* table.
C2_PersistBeforeAdvance ==
    [][\A f \in hist'.fetched :
          (CursorOf(f)' # CursorOf(f) /\ Covered(f)') => Stored(f)']_vars

\* C3: after a kill, every new message a fetch returned that passed parsing
\* and scope filtering is stored, is still held by the running cycle, or is
\* returned again by the next fetch.
C3_KillLosesNothing ==
    hist.killed =>
        \A f \in hist.fetched : f.fresh => Stored(f) \/ InFlight(f) \/ Refetchable(f)

\* C4: in the first poll cycle of the Beeper supervisor no message that the
\* source held before startup is inserted, and at the end of that cycle every
\* group has a stored cursor.
C4_NoBackfill ==
    hist.cyc = 1 =>
        /\ \A r \in messages : r.id \notin hist.old
        /\ bp.pc = "sleep" =>
             \A i \in 1..Len(bp.groups) :
                LoadState(sync_state, BeeperCursorKey(bp.groups[i].id)) # None

CursorKeys == {BeeperCursorKey(c) : c \in ChatIds} \cup {UidCursorKey(MAILBOX)}

\* C5: a stored Beeper or IMAP cursor is never replaced by an older value,
\* nor removed.
C5_CursorMonotone ==
    [][\A k \in CursorKeys :
          sync_state[k] # None =>
             sync_state'[k] # None /\ Val(sync_state'[k]) >= Val(sync_state[k])]_vars

\* The mailbox lost its newest mail, the search of the last poll returned
\* only UIDs below the stored cursor, the poll parsed such a mail and wrote the
\* cursor, and the stored cursor is above them still.
C5_Witness ==
    /\ gg.pc = "save"
    /\ hist.below
    /\ load_uid_cursor(sync_state) # None
    /\ \E f \in hist.fetched :
         /\ f.src = "gg" /\ f.pos < Val(load_uid_cursor(sync_state))
         /\ \E i \in 1..Len(gg.new_messages) : gg.new_messages[i].id = f.id

\* C6: when poll_once returns after the fetch of some group raised, every
\* group of the list has been fetched, and every group whose fetch answered
\* has its rows in the table and the returned cursor stored.
C6_FetchErrorIsolated ==
    (bp.pc = "dispatch" /\ \E i \in 1..Len(bp.polled) : bp.polled[i].status = "raised")
      => /\ Len(bp.polled) = Len(bp.groups)
         /\ \A i \in 1..Len(bp.polled) :
              bp.polled[i].status = "ok" =>
                 /\ bp.polled[i].ids \subseteq Ids(messages)
                 /\ bp.polled[i].cursor # None =>
                      LoadState(sync_state, BeeperCursorKey(bp.groups[i].id))
                        = bp.polled[i].cursor

\* The fetch of the first group raised and the second group was saved and
\* its cursor stored.
C6_Witness ==
    /\ bp.pc = "dispatch"
    /\ Len(bp.polled) = 2
    /\ bp.polled[1].status = "raised"
    /\ bp.polled[2].status = "ok"
    /\ bp.polled[2].ids # {}
    /\ LoadState(sync_state, BeeperCursorKey(bp.groups[2].id)) = bp.polled[2].cursor
    /\ bp.polled[2].cursor # None

BeeperKeys == {BeeperCursorKey(c) : c \in ChatIds} \cup {<<"beeper_active_group_ids", "">>}
GGKeys     == {UidCursorKey(MAILBOX), <<"google_groups_active_group_keys", "">>}

BeeperStep ==
    \/ BeeperDiscover \/ BeeperSeed \/ BeeperFetch \/ BeeperSave \/ BeeperAdvance
    \/ BeeperDispatch \/ BeeperCallback \/ BeeperWake \/ BeeperRetry \/ BeeperCaught \/ BeeperRestart

GGStep ==
    \/ GGStart \/ GGPoll \/ GGSave \/ GGCallback \/ GGWake \/ GGRetry \/ GGCaught \/ GGRestart

\* C7: a step in which the Beeper supervisor moves (fails, backs off, raises,
\* is restarted) leaves the Google Groups supervisor, its backoff and its
\* stored state as they are, and the other way round; neither ever ends, and
\* each can take its next step whatever the other is doing.
C7_SourcesIndependent ==
    /\ [][/\ bp' # bp => /\ gg' = gg
                          /\ \A k \in GGKeys : sync_state'[k] = sync_state[k]
          /\ gg' # gg => /\ bp' = bp
                          /\ \A k \in BeeperKeys : sync_state'[k] = sync_state[k]]_vars
    /\ [](bp.pc \notin {"off", "stopped"} /\ gg.pc \notin {"off", "stopped"})
    /\ [](ENABLED BeeperStep /\ ENABLED GGStep)

\* The Beeper source has raised and is cooling down while the Google Groups
\* supervisor, its cursor stored, is in a retry sleep with a backoff that
\* has grown.
C7_Witness ==
    /\ bp.pc = "cooldown"
    /\ gg.pc = "backoff"
    /\ gg.backoff >= 2
    /\ load_uid_cursor(sync_state) # None

\* C8: within a run of consecutive failed cycles of a source, a retry sleep
\* is at least as long as the one before it and at most 300 seconds.
C8_BackoffBound ==
    [][\A s \in {"beeper", "gg", "matrix"} :
          (hist'.retry[s] # hist.retry[s] /\ hist'.retry[s] # 0)
             => /\ hist'.retry[s] >= hist.retry[s]
                /\ hist'.retry[s] <= BACKOFF_CEILING]_vars

\* C9: once a message fetch of the Beeper source was answered with 401,
\* sync_loop has raised.
C9_UnauthorizedStops ==
    hist.b401 => bp.pc \in {"raised", "cooldown"}

\* run_sync under an event loop that runs every task that is ready: a
\* wrapper whose source has raised gets to log and sleep, and a wrapper whose
\* cool-down is over gets to call its factory again.
FairRun ==
    /\ SpecRun
    /\ WF_vars(BeeperCaught) /\ WF_vars(BeeperRestart)
    /\ WF_vars(GGCaught) /\ WF_vars(GGRestart)

\* C10: a source that has raised is next put into the cool-down of 10
\* seconds, the cool-down ends in a fresh supervisor at discovery, every raise
\* is followed by such a restart, and no wrapper ever ends.
C10_AlwaysRestarted ==
    /\ [](bp.pc = "cooldown" => bp.sleep = RESTART_COOLDOWN)
    /\ [](gg.pc = "cooldown" => gg.sleep = RESTART_COOLDOWN)
    /\ [][/\ (bp.pc = "raised" /\ bp' # bp) => bp'.pc = "cooldown"
          /\ (gg.pc = "raised" /\ gg' # gg) => gg'.pc = "cooldown"
          /\ (bp.pc = "cooldown" /\ bp' # bp) => bp' = BeeperIdle
          /\ (gg.pc = "cooldown" /\ gg' # gg) => gg' = GGIdle]_vars
    /\ (bp.pc = "raised") ~> (bp.pc = "start")
    /\ (gg.pc = "raised") ~> (gg.pc = "start")
    /\ [](bp.pc # "stopped" /\ gg.pc # "stopped")

\* Both sources have raised, the Beeper source after its discovery stored the
\* groups, and both wrappers are in the cool-down.
C10_Witness ==
    /\ bp.pc = "cooldown"
    /\ bp.sleep = RESTART_COOLDOWN
    /\ LoadState(sync_state, <<"beeper_active_group_ids", "">>) # None
    /\ gg.pc = "cooldown"

\* The steps of the Beeper loop other than the end of the on_messages call.
BeeperLoopStep ==
    \/ BeeperFetch \/ BeeperSave \/ BeeperAdvance \/ BeeperDispatch
    \/ BeeperWake \/ BeeperRetry

\* The steps of the Google Groups loop other than the end of the on_messages
\* call.
GGLoopStep ==
    \/ GGPoll \/ GGSave \/ GGWake \/ GGRetry

\* C11: while the on_messages call of a cycle that inserted messages has not
\* finished, the supervisor can take the next step of its loop (the sleep,
\* the next poll): it does not wait for the consumer.
C11_CallbackNotAwaited ==
    /\ bp.pc = "callback" => ENABLED BeeperLoopStep
    /\ gg.pc = "callback" => ENABLED GGLoopStep

\* C12: whatever way the on_messages call ends, the supervisor counts the
\* cycle as successful: backoff at 1 and the sleep of the poll interval.
C12_CallbackErrorUnseen ==
    [][/\ (bp.pc = "callback" /\ bp' # bp) =>
             bp'.pc = "sleep" /\ bp'.backoff = 1 /\ bp'.sleep = POLL_INTERVAL
       /\ (gg.pc = "callback" /\ gg' # gg) =>
             gg'.pc = "sleep" /\ gg'.backoff = 1 /\ gg'.sleep = GG_POLL_INTERVAL]_vars

\* The cycles of the three sources applied to a batch.
Cycles == {"beeper.sync_loop", "google_groups.sync_loop", "matrix.sync_loop"}

\* C13: a cycle on a batch of distinct ids, none of whose INSERTs raised,
\* calls on_messages only if it inserted at least one row, and the list it
\* passes holds exactly the rows the cycle inserted, each once: no row that
\* was stored before, and every inserted row.
C13_ConsumerGetsInserted ==
    [][(/\ call'.fn \in Cycles
        /\ ~call'.failed
        /\ \A i, j \in 1..Len(call'.batch) :
              call'.batch[i].id = call'.batch[j].id => i = j) =>
         LET inserted == messages' \ messages
         IN  /\ call'.passed # None => inserted # {}
             /\ inserted # {} => call'.passed # None
             /\ call'.passed # None =>
                   /\ Range(Val(call'.passed)) = inserted
                   /\ Len(Val(call'.passed)) = Cardinality(inserted)]_vars

\* The chats of GET /v1/chats whose title is in the excluded set.
ExcludedChats ==
    {Chats[i].id : i \in {j \in 1..Len(Chats) : Chats[j].title \in DEFAULT_EXCLUDED_GROUPS}}

\* C14: the messages table holds no row whose room_id is a chat with an
\* excluded title, no cursor is stored for such a chat, and the supervisor
\* does not hold such a chat in its list of groups.
C14_ExcludedNeverStored ==
    \A c \in ExcludedChats :
        /\ \A r \in messages : r.room_id # c
        /\ LoadState(sync_state, BeeperCursorKey(c)) = None
        /\ \A i \in 1..Len(bp.groups) : bp.groups[i].id # c

\* A chat with an excluded title holds a message while a poll has gone
\* through all groups: rows of a monitored chat are stored, the cursors of
\* the monitored chats are stored, and the supervisor sleeps.
C14_Witness ==
    /\ \E c \in ExcludedChats : beeperApi[c] # <<>>
    /\ bp.pc = "sleep"
    /\ \E r \in messages : r.room_id \in Monitored
    /\ \A c \in Monitored : LoadState(sync_state, BeeperCursorKey(c)) # None

\* C15: parse_group_email returns None for an email whose group key is not
\* in allowed_groups, whatever the set, the empty set included.
C15_OutsideAllowedDropped ==
    (call.fn = "parse_group_email" /\ call.msg.group_key \notin call.allowed_groups)
        => call.out = None

Normalizers == {"parse_beeper_message", "parse_group_email", "parse_message_event"}

\* C16: when a normalizer is called on the message (and UID) of the call
\* before, at whatever time and with whatever other arguments, and both
\* calls return a row, the two rows have the same id.
C16_SameMessageSameId ==
    (/\ call.fn \in Normalizers
     /\ call.prev # None
     /\ call.out # None
     /\ Val(call.prev).out # None)
        => Val(call.out).id = Val(Val(call.prev).out).id

\* An email without Message-Id and without Date has been parsed twice with
\* the same UID at two times: the two rows carry different timestamps.
C16_Witness ==
    /\ call.fn = "parse_group_email"
    /\ call.msg.message_id = "" /\ call.msg.date = ""
    /\ call.prev # None
    /\ call.out # None /\ Val(call.prev).out # None
    /\ Val(call.prev).now # call.now
    /\ Val(call.prev).ts # call.ts

\* a is b with some elements left out.
RECURSIVE IsSubSeq(_, _)
IsSubSeq(a, b) ==
    IF a = <<>> THEN TRUE
    ELSE IF b = <<>> THEN FALSE
    ELSE IF Head(a) = Head(b) THEN IsSubSeq(Tail(a), Tail(b))
    ELSE IsSubSeq(a, Tail(b))

\* The body 'New thought here.\n\nOn Wed someone wrote:\n> quoted text'.
ExampleBody ==
    << Line("", <<"New", "thought", "here.">>),
       Line("", <<>>),
       Line("", <<"On", "Wed", "someone", "wrote:">>),
       Line("", <<">", "quoted", "text">>) >>

\* C17: the lines of the body _strip_quoted_text returns are, in their
\* order, lines that stand before the first 'On ... wrote:' line of the body
\* it was given, none of them begins with '>', and for the example body the
\* result is the one line 'New thought here.'.
C17_QuotesStripped ==
    call.fn = "_strip_quoted_text" =>
        LET lines   == call.lines
            matches == {i \in 1..Len(lines) : QuoteBreak(lines[i].words)}
            before  == IF matches = {} THEN lines
                       ELSE SubSeq(lines, 1,
                                   (CHOOSE i \in matches : \A j \in matches : i <= j) - 1)
            words(l) == [i \in 1..Len(l) |-> l[i].words]
        IN  /\ IsSubSeq(words(call.out), words(before))
            /\ \A i \in 1..Len(call.out) :
                  call.out[i].words = <<>> \/ call.out[i].words[1] # ">"
            /\ lines = ExampleBody => call.out = <<Line("", <<"New", "thought", "here.">>)>>

\* The example body has been stripped to its first line.
C17_Witness ==
    /\ call.fn = "_strip_quoted_text"
    /\ call.lines = ExampleBody
    /\ call.out = <<Line("", <<"New", "thought", "here.">>)>>

\* C18: with a stored cursor N poll_once first calls client.uid with SEARCH
\* and the arguments None, 'UID', 'N+1:*'; when the search returns no UID it
\* makes no other call, returns the empty list and leaves the cursor at N.
C18_UidSearchFromCursor ==
    (call.fn = "poll_once" /\ call.uid_cursor # None) =>
        LET N == Val(call.uid_cursor)
        IN  /\ call.uid_calls[1] = <<"SEARCH", "None", "UID", UidName[N + 1], ":*">>
            /\ call.found = <<>> =>
                  /\ Len(call.uid_calls) = 1
                  /\ call.out = <<>>
                  /\ load_uid_cursor(sync_state) = Some(N)

\* C19: every row of the messages table is in the table after every step,
\* with every field as it was: no save changes or removes a stored row, and
\* the table only grows.
C19_RowsImmutable ==
    [][/\ messages \subseteq messages'
       /\ Cardinality(messages') >= Cardinality(messages)]_vars

\* A batch has been saved without error all of whose rows carry a stored id
\* with other content than the stored row: nothing was inserted and the
\* stored rows are what they were.
C19_Witness ==
    /\ call.fn = "save_messages"
    /\ call.batch # <<>>
    /\ ~call.failed
    /\ call.ret = 0
    /\ \A i \in 1..Len(call.batch) :
          /\ call.batch[i].id \in Ids(messages)
          /\ call.batch[i] \notin messages

\* The save functions.
Saves == {"save_messages", "_save_messages"}

\* C20: a save that returns returns the number of rows by which the table
\* has grown.
C20_ReturnsRowsAdded ==
    [][(call'.fn \in Saves /\ ~call'.raised) =>
          call'.ret = Cardinality(messages') - Cardinality(messages)]_vars

\* A batch that holds one id twice, with different content, has been saved
\* without error: the first of the two rows is stored and the save
\* returned 1.
C20_Witness ==
    /\ call.fn \in Saves
    /\ ~call.failed /\ ~call.raised
    /\ Len(call.batch) >= 2
    /\ \E i, j \in 1..Len(call.batch) :
          /\ i < j
          /\ call.batch[i].id = call.batch[j].id
          /\ call.batch[i] # call.batch[j]
          /\ call.batch[i] \in messages
    /\ call.ret = 1

\* C21: whatever urlopen did, publish_event returned: a save that inserted
\* rows is never followed by the failure of the cycle, and after a
\* notification that failed the rows of the save are in the table and the
\* cycle goes on as after one that succeeded, the Beeper loop with the store
\* of the cursor the fetch returned and the next group, the Google Groups
\* loop, its cursor written by the poll, with the call of on_messages.
C21_NotifyNeverFailsSave ==
    /\ [][/\ (bp.pc = "save" /\ bp' # bp /\ messages' # messages) => bp'.pc = "advance"
          /\ (gg.pc = "save" /\ gg' # gg /\ messages' # messages) =>
                /\ gg'.pc = "callback"
                /\ Range(gg'.new_messages) \subseteq messages']_vars
    /\ [](bp.notified = "failed" =>
              bp.pc = "advance" /\ bp.tried \subseteq Ids(messages))
    /\ [][(bp.notified = "failed" /\ bp' # bp) =>
              /\ bp'.pc \in {"fetch", "dispatch"}
              /\ bp.new_cursor # None =>
                    LoadState(sync_state', BeeperCursorKey(bp.groups[bp.gi].id))
                      = bp.new_cursor]_vars

\* The transport of the notification of a Beeper save that inserted rows
\* failed, and the supervisor stands before the store of the
\* cursor, which differs from the stored one.
C21_Witness ==
    /\ bp.notified = "failed"
    /\ bp.pc = "advance"
    /\ bp.tried # {}
    /\ bp.new_cursor # None
    /\ bp.new_cursor # LoadState(sync_state, BeeperCursorKey(bp.groups[bp.gi].id))

\* C22: every row of the messages table has a body that is not empty once
\* its whitespace is trimmed.
C22_BodyNeverEmpty ==
    \A r \in messages : r.body # ""

\* C23: when a fetched Beeper batch holds an item that cannot be parsed (a
\* message with text but without a timestamp), the step that parses and
\* saves the batch does not fail the cycle: the loop goes on to advance the
\* cursor of the group.
C23_BadItemOnlySkipped ==
    [][(/\ bp.pc = "save"
        /\ bp' # bp
        /\ \E i \in DOMAIN bp.raw_msgs :
              /\ bp.raw_msgs[i].type = "TEXT"
              /\ bp.raw_msgs[i].text # ""
              /\ ~bp.raw_msgs[i].hasTs)
       => bp'.pc = "advance"]_vars

\* C24: after a save in which the INSERT of the first message of the batch
\* raised, every other message of the batch is stored, in the save function
\* of every source.
C24_OtherRowsStillSaved ==
    (call.fn \in Saves /\ call.failed) =>
        \A i \in 2..Len(call.batch) : call.batch[i].id \in Ids(messages)

\* The rooms of the WhatsApp bridge.
WhatsAppRooms == {Rooms[i].room_id : i \in {k \in 1..Len(Rooms) : Rooms[k].bridge_name = "whatsapp"}}

\* C25: when the Matrix loop, having synced from a stored token, is about to
\* advance the token, every message event of a WhatsApp room between the
\* old and the new token was extracted: its room is in known_rooms.
C25_WatchedRoomsSurviveRestart ==
    (mx.pc = "token" /\ mx.next_batch # None) =>
        \A i \in 1..Len(hs) :
            (/\ hs[i].room_id \in WhatsAppRooms
             /\ hs[i].type = "m.room.message"
             /\ hs[i].pos > Val(mx.next_batch)
             /\ hs[i].pos <= Val(mx.new_batch))
            => hs[i].room_id \in KnownIds(mx.known_rooms)

\* C26: what get_whatsapp_groups returns holds every group chat of the
\* answer whose network field is absent and whose accountID is 'whatsapp',
\* and no chat that is not a group or belongs to another network.
C26_AccountIdAccepted ==
    call.fn = "get_whatsapp_groups" =>
        \A i \in 1..Len(call.items) :
            LET c  == call.items[i]
                wa == c.network = "WhatsApp" \/ (c.network = "" /\ c.accountID = "whatsapp")
            IN  /\ (wa /\ c.type = "group" /\ c.title \notin DEFAULT_EXCLUDED_GROUPS)
                      => c \in Range(call.groups)
                /\ (~wa \/ c.type # "group") => c \notin Range(call.groups)

\* C27: parse_beeper_message returns None for a TEXT message whose text,
\* trimmed, is 'Encrypted'.
C27_EncryptedDropped ==
    (/\ call.fn = "parse_beeper_message"
     /\ call.msg.type = "TEXT"
     /\ call.msg.text = "Encrypted")
        => (~call.raised /\ call.out = None)

\* C28: a cycle of the Beeper loop in which the fetch of a group raised an
\* exception other than an authentication error does not end in the reset
\* of the backoff and the regular sleep.
C28_FetchErrorBacksOff ==
    [][(/\ bp.pc \in {"dispatch", "callback"}
        /\ ~hist.b401
        /\ \E i \in 1..Len(bp.polled) : bp.polled[i].status = "raised")
       => ~(bp'.pc = "sleep" /\ bp'.backoff = 1 /\ bp'.sleep = POLL_INTERVAL)]_vars

\* C29: in every source's loop the first retry sleep after a cycle that
\* completed without exception is 1 second.  (In the Beeper and Google
\* Groups loops also the first of a fresh loop; in the Matrix loop a cycle
\* has completed once a sync token is stored.)
C29_FirstFailureSleepsOne ==
    [][/\ \A s \in {"beeper", "gg"} :
            (hist.retry[s] = 0 /\ hist'.retry[s] # 0) => hist'.retry[s] = 1
       /\ (/\ hist.retry["matrix"] = 0 /\ hist'.retry["matrix"] # 0
           /\ mx.next_batch # None)
            => hist'.retry["matrix"] = 1]_vars

\* C30: when the Beeper loop leaves the seeding of the cursors for its first
\* poll, every discovered group has a stored cursor.
C30_EveryGroupSeeded ==
    [][(bp.pc = "seed" /\ bp'.pc = "fetch") =>
          \A i \in 1..Len(bp'.groups) :
              LoadState(sync_state', BeeperCursorKey(bp'.groups[i].id)) # None]_vars

\* C31: fetch_new_messages called without cursor issues exactly one page
\* request.
C31_FirstRunOnePage ==
    (call.fn = "fetch_new_messages" /\ call.after_cursor = None) => call.nreq = 1

\* C32: the cursor fetch_new_messages returns with items is the sortKey of
\* the newest of the items, and a fetch from that cursor returns none of
\* them.
C32_CursorIsNewest ==
    (call.fn = "fetch_new_messages" /\ call.items # <<>>) =>
        /\ \A i \in 1..Len(call.items) : call.items[i].sortKey <= Val(call.cursor)
        /\ Range(fetch_new_messages(call.msgs, call.cursor).items)
              \cap Range(call.items) = {}

\* C33: a fetch of a Beeper group that raises, or that returns no items,
\* changes neither the table nor sync_state, an answer without items carries
\* the cursor the fetch was called with, and the rest of the cycle for that
\* group leaves both as they are; a poll of the mailbox that raises or
\* returns nothing leaves the table as it is, and the UID cursor too unless
\* there was none or the mailbox holds a mail above it.
C33_NothingNewNothingChanged ==
    /\ [](bp.pc = "save" /\ bp.raw_msgs = <<>> => bp.new_cursor = bp.cursor)
    /\ [][/\ (bp.pc = "fetch" /\ bp' # bp) => dbVars' = dbVars
          /\ (bp.pc = "save" /\ bp.raw_msgs = <<>> /\ bp' # bp) =>
                dbVars' = dbVars /\ bp'.pc = "advance" /\ bp'.new_cursor = bp'.cursor
          /\ (bp.pc = "advance" /\ bp.new_cursor = bp.cursor /\ bp' # bp) =>
                dbVars' = dbVars
          /\ (gg.pc = "poll" /\ gg' # gg /\ gg'.pc \in {"backoff", "sleep"}) =>
                /\ messages' = messages
                /\ sync_state' # sync_state =>
                      \/ load_uid_cursor(sync_state) = None
                      \/ \E m \in Range(imap.mails) :
                            m.uid > Val(load_uid_cursor(sync_state))]_vars

\* A poll_once call of the Beeper supervisor is done with a group that has a
\* stored cursor and whose fetch answered without items: the stored cursor
\* is the one the fetch was called with.
C33_Witness ==
    /\ bp.pc = "dispatch"
    /\ \E i \in 1..Len(bp.polled) :
          /\ bp.polled[i].status = "ok"
          /\ bp.polled[i].ids = {}
          /\ bp.polled[i].cursor # None
          /\ beeperApi[bp.groups[i].id] # <<>>
          /\ LoadState(sync_state, BeeperCursorKey(bp.groups[i].id)) = bp.polled[i].cursor

C35_CursorBeforeCallback ==
    [][(mx.pc = "sync" /\ mx' # mx /\ messages' # messages) =>
          \A i \in 1..Len(hs) :
              hs[i].event_id \in Ids(messages') \ Ids(messages) =>
                 /\ LoadState(sync_state', NextBatchKey) # None
                 /\ hs[i].pos <= Val(LoadState(sync_state', NextBatchKey))]_vars

\* The batch the Beeper supervisor is about to save for the current group.
PendingBeeper == ParseAll(bp.raw_msgs, bp.groups[bp.gi].title, 1, <<>>)

C37_InitDbPreserves ==
    (call.fn = "init_db" /\ call.before.tables["messages"] > 0) =>
        /\ messages = call.before.messages
        /\ sync_state = call.before.sync_state
        /\ call.after.messages = call.before.messages
        /\ call.after.sync_state = call.before.sync_state
        /\ \A t \in TableNames : call.after.tables[t] = 1
        /\ call.before.value_config # {} =>
               call.after.value_config = call.before.value_config
        /\ init_db(call.after) = call.after

\* init_db ran on an initialized database that holds messages, a cursor and
\* an edited value_config.
C37_Witness ==
    /\ call.fn = "init_db"
    /\ call.before.tables["messages"] = 1
    /\ call.before.value_config = {<<"topics", "edited">>}
    /\ Cardinality(messages) = 2
    /\ \E c \in ChatIds : load_cursor(sync_state, c) # None

\* C38: two Beeper messages that differ in chatID or in id, parsed one after
\* the other, get different canonical ids.
C38_DistinctMessagesDistinctIds ==
    [][(/\ call.fn = "parse_beeper_message" /\ call'.fn = "parse_beeper_message"
        /\ call.out # None /\ call'.out # None
        /\ <<call.msg.chatID, call.msg.id>> # <<call'.msg.chatID, call'.msg.id>>)
         => Val(call'.out).id # Val(call.out).id]_vars

\* C39: when a poll of the Google Groups supervisor issues the FETCH of the
\* UID of a mail of a configured group that lies above the old cursor, and
\* moves the stored UID cursor to or past that UID, the row of that mail is
\* among the messages the poll returned.
C39_CursorNotPastUnfetched ==
    [][(gg.pc = "poll" /\ gg' # gg /\ load_uid_cursor(sync_state) # None
                       /\ load_uid_cursor(sync_state') # None) =>
          \A i \in 1..Len(imap.mails) :
              LET m   == imap.mails[i]
                  row == parse_group_email(m, m.uid, GROUP_KEYS)
              IN  (/\ row # None
                   /\ m.uid \in Range(SearchFrom(imap.mails,
                                                Val(load_uid_cursor(sync_state)) + 1))
                   /\ m.uid > Val(load_uid_cursor(sync_state))
                   /\ m.uid <= Val(load_uid_cursor(sync_state')))
                    => Val(row) \in Range(gg'.new_messages)]_vars

\* The steps of the Beeper supervisor task.
BeeperTask ==
    \/ BeeperDiscover \/ BeeperSeed \/ BeeperFetch \/ BeeperSave \/ BeeperAdvance
    \/ BeeperDispatch \/ BeeperCallback \/ BeeperWake \/ BeeperRetry
    \/ BeeperCaught \/ BeeperRestart

\* The Beeper source under an event loop that runs the task whenever its
\* sleep is over or the call it awaits has ended.
FairBeeper == SpecBeeper /\ WF_vars(BeeperTask)

\* The current poll_once call is done with the group of chat c, and how.
PolledAs(c, status) ==
    \E i \in 1..Len(bp.polled) :
        i <= Len(bp.groups) /\ bp.groups[i].id = c /\ bp.polled[i].status = status

\* Chat c holds a message that parse_beeper_message raises on.
Unparseable(c) ==
    \E i \in 1..Len(beeperApi[c]) :
        parse_beeper_message(beeperApi[c][i], "The vibez").raised

\* C40: each monitored group is again and again polled to completion
\* (fetched, saved, cursor written), unless again and again its own fetch
\* fails, the source raises and is restarted, or the process is killed, or
\* the group itself holds a message that cannot be parsed.
C40_LaterGroupsNotStarved ==
    \A c \in Monitored :
        \/ []<>PolledAs(c, "ok")
        \/ []<>PolledAs(c, "raised")
        \/ []<>(bp.pc = "raised")
        \/ []<><<ProcessKill>>_vars
        \/ []<>Unparseable(c)

====
